---- MODULE Spec2Model ----
(***************************************************************************)
(* Multi-device Modbus RTU slave simulator (RS485Simulator).               *)
(* State machine of the server: the RTU frame parser (processBuffer), the  *)
(* request dispatcher (handleFrame), the inverter write validator, the     *)
(* password / control-command hooks and the operator commands.             *)
(***************************************************************************)
EXTENDS Integers, Sequences, FiniteSets, TLC

VARIABLES
    devices,            \* Map slaveId -> {type, enabled, simulationMode}
    memory,             \* unit id -> Uint16Array(65536), kept as its non-zero entries
    deviceUnlockState,  \* Map unitID -> {unlocked, lastActivity}
    buffer,             \* rolling input buffer (sequence of bytes)
    portOpen,           \* serialPort !== null && serialPort.isOpen
    simInterval,        \* the 1 Hz timer is armed
    memoryFile,         \* contents of memory.json
    devicesFile,        \* contents of devices.json
    result,             \* what the last addDevice / removeDevice call returned
    draining,           \* a response was handed to serialPort.write and the callback of
                        \* its write or of its drain has not run yet
    events,             \* reg-update and regs-update-batch events of the last handler,
                        \* in the order in which they are emitted
    now,                \* Date.now()
    rx,                 \* frames handed to handleFrame by the last data event
    tx,                 \* responses written to the serial port by the last data event
    hooks,              \* reactive hooks run by the last data event
    thrown,             \* the last data event ended in an uncaught exception
    lastWrite,          \* master's record per unit: time of its last write request
                        \* and of its last write request answered without exception
    sent,               \* stream scenario: the items the master put on the wire
    pos,                \* stream scenario: number of bytes of the wire delivered so far
    yielded             \* stream scenario: every frame handed to handleFrame so far

vars == << devices, memory, deviceUnlockState, buffer, portOpen, simInterval,
           memoryFile, devicesFile, now, rx, tx, hooks, thrown, lastWrite, sent, pos, yielded,
           result, draining, events >>

(***************************************************************************)
(* Bounds of the model.                                                    *)
(***************************************************************************)
StartTime == 1000000      \* Date.now() when the process starts
MaxElapsed == 300002      \* the clock is followed for this many ms
MaxItems == 2             \* stream scenario: items (frames, noise runs) on the wire
MaxBacklog == 9           \* read scenario: the master sends while fewer bytes are buffered

(***************************************************************************)
(* Program constants.                                                      *)
(***************************************************************************)
UNLOCK_TIMEOUT_MS == 300000
MAX_BUFFER_SIZE == 4096
ARRAY_SIZE == 65536

(***************************************************************************)
(* Bytes, words and bit operations.                                        *)
(***************************************************************************)
RECURSIVE Xor(_, _)
Xor(a, b) ==
    IF a = 0 THEN b
    ELSE IF b = 0 THEN a
    ELSE (((a % 2) + (b % 2)) % 2) + 2 * Xor(a \div 2, b \div 2)

RECURSIVE Or(_, _)
Or(a, b) ==
    IF a = 0 THEN b
    ELSE IF b = 0 THEN a
    ELSE (IF (a % 2) + (b % 2) > 0 THEN 1 ELSE 0) + 2 * Or(a \div 2, b \div 2)

Hi(w) == (w \div 256) % 256
Lo(w) == w % 256

\* Buffer.readUInt16BE(off) / readUInt16LE(off) on a byte sequence (off counts from 0)
ReadUInt16BE(b, off) == b[off + 1] * 256 + b[off + 2]
ReadUInt16LE(b, off) == b[off + 1] + b[off + 2] * 256
\* both throw ERR_OUT_OF_RANGE when the two bytes are not inside the buffer
ReadInRange(b, off) == off + 2 <= Len(b)

Subarray(b, from, to) ==
    IF to <= from THEN << >> ELSE SubSeq(b, from + 1, to)

(***************************************************************************)
(* calculateCRC: CRC-16/Modbus, bit by bit as the source computes it.      *)
(***************************************************************************)
\* x ^ 0xA001: bits 15, 13 and 0 of x flipped (k is the weight of the bit)
FlipBit(x, k) == IF (x \div k) % 2 = 1 THEN x - k ELSE x + k
XorA001(x) == FlipBit(FlipBit(FlipBit(x, 32768), 8192), 1)

RECURSIVE CrcBits(_, _)
CrcBits(crc, i) ==
    IF i = 0 THEN crc
    ELSE IF crc % 2 # 0
         THEN CrcBits(XorA001(crc \div 2), i - 1)
         ELSE CrcBits(crc \div 2, i - 1)

\* the bytes b[lo..hi] taken into crc one after the other (the range is halved to
\* keep the evaluation shallow; the bytes are still consumed in order)
RECURSIVE CrcRange(_, _, _, _)
CrcRange(crc, b, lo, hi) ==
    IF lo > hi THEN crc
    ELSE IF lo = hi THEN CrcBits(Xor(crc, b[lo]), 8)
    ELSE LET mid == (lo + hi) \div 2
             left == CrcRange(crc, b, lo, mid)
         IN  IF left >= 0 THEN CrcRange(left, b, mid + 1, hi) ELSE 0

CrcFrom(crc, b, p) == CrcRange(crc, b, p, Len(b))

calculateCRC(b) == CrcFrom(65535, b, 1)

\* a frame body followed by its CRC, low byte first (writeUInt16LE)
Seal(body) ==
    LET crc == calculateCRC(body)
    IN  body \o << Lo(crc), Hi(crc) >>

(***************************************************************************)
(* Register defaults per device type (the non-zero entries).               *)
(***************************************************************************)
DeviceTypes == {"inverter", "flowmeter", "energymeter"}

inverterDefaults ==
    (\h3000 :> 5000) @@ (\h3002 :> 2200) @@ (\h3003 :> 50) @@ (\h3004 :> 11) @@
    (\h3005 :> 1450) @@ (\h3006 :> 3100) @@ (\h3017 :> 350) @@ (\h3023 :> 999) @@
    (\h840A :> 1) @@ (\h0B15 :> 45) @@
    (\h0300 :> 5000) @@ (\h0302 :> 2200) @@ (\h0303 :> 50) @@ (\h0304 :> 11) @@
    (\h0305 :> 1450) @@ (\h0306 :> 3100) @@ (\h0317 :> 350) @@ (\h0323 :> 999)

flowMeterDefaults ==
    (774 :> \h0403) @@ (262 :> \h43D4) @@ (282 :> \h42C8) @@ (285 :> \h4120)

energyMeterDefaults ==
    (\h082E :> \h3F80) @@ (\h0830 :> \h3F80) @@ (\h0832 :> \h3F80) @@
    (\h0834 :> \h0032) @@ (\h008D :> 1) @@ (\h008E :> 1)

DefaultsOf(type) ==
    IF type = "flowmeter" THEN flowMeterDefaults
    ELSE IF type = "energymeter" THEN energyMeterDefaults
    ELSE inverterDefaults

(***************************************************************************)
(* A Uint16Array(65536): reads outside it are undefined (used as 0), a     *)
(* store outside it is ignored, a stored value is taken modulo 2^16.       *)
(***************************************************************************)
MemRead(m, a) == IF a \in DOMAIN m THEN m[a] ELSE 0

MemWrite(m, a, v) ==
    IF a < 0 \/ a >= ARRAY_SIZE THEN m
    ELSE IF v % ARRAY_SIZE = 0
         THEN [x \in DOMAIN m \ {a} |-> m[x]]
         ELSE [x \in DOMAIN m \cup {a} |-> IF x = a THEN v % ARRAY_SIZE ELSE m[x]]

getDeviceType(devs, id) ==
    IF id \in DOMAIN devs THEN devs[id].type ELSE "inverter"

\* mutant: every unit taken as enabled
isDeviceEnabled_Always(devs, id) == TRUE

isDeviceEnabled(devs, id) ==
    IF id \in DOMAIN devs THEN devs[id].enabled ELSE FALSE

\* getMem: the memory map after the lazy allocation of unitID's array
getMem(mems, devs, unitID) ==
    IF unitID \in DOMAIN mems THEN mems
    ELSE [x \in DOMAIN mems \cup {unitID} |->
            IF x = unitID THEN DefaultsOf(getDeviceType(devs, unitID)) ELSE mems[x]]

\* getUnlockState: the unlock map after the lazy creation of unitID's entry
getUnlockState(us, unitID) ==
    IF unitID \in DOMAIN us THEN us
    ELSE [x \in DOMAIN us \cup {unitID} |->
            IF x = unitID THEN [unlocked |-> FALSE, lastActivity |-> 0] ELSE us[x]]

(***************************************************************************)
(* Write rules of the inverter.                                            *)
(***************************************************************************)
READ_ONLY_REGISTERS == {\h2100, \h2101}
\* mutant: the last register of the U00 group left out
isU00Register_OffByOne(addr) == addr >= \h3000 /\ addr < \h30FF

isU00Register(addr) == addr >= \h3000 /\ addr <= \h30FF
isU01Register(addr) == addr >= \h3100 /\ addr <= \h31FF

ControlAddrs == {\h2000, \h2001, \h2002, \h2003, \h2004}

\* CONTROL_REGISTERS[addr] rejects val (val is the unsigned word of the frame)
ControlRejects(addr, val) ==
    CASE addr = \h2000 -> val \notin 0..7
      [] addr = \h2001 -> val < 0 \/ val > 60000
      [] addr = \h2002 -> val < 0 \/ val > 1000
      [] addr = \h2003 -> val < 0 \/ val > 1000
      [] addr = \h2004 -> val < -3000 \/ val > 3000
      [] OTHER -> FALSE

\* mutant: the timeout taken in seconds
AutoLockDue_Seconds(u, t) == u.unlocked /\ (t - u.lastActivity > UNLOCK_TIMEOUT_MS * 1000)

\* the auto-lock test at the head of validateWriteRequest
AutoLockDue(u, t) == u.unlocked /\ (t - u.lastActivity > UNLOCK_TIMEOUT_MS)

\* mutant: the unlock flag read without its negation
LockRejects_Inverted(mem, u, addr) ==
    MemRead(mem, 2) = 1 /\ addr # 2 /\ u.unlocked

\* the parameter-protection test: locked out of addr
LockRejects(mem, u, addr) ==
    MemRead(mem, 2) = 1 /\ addr # 2 /\ ~u.unlocked

\* mutant: the parameter-protection test made before the read-only test
validateWriteRequest_LockFirst(s, addr, val, unitID, devs, t) ==
    LET mems == getMem(s.memory, devs, unitID)
        us0 == getUnlockState(s.unlock, unitID)
        u0 == us0[unitID]
        u1 == IF AutoLockDue(u0, t) THEN [u0 EXCEPT !.unlocked = FALSE] ELSE u0
        s1 == [s EXCEPT !.memory = mems, !.unlock = [us0 EXCEPT ![unitID] = u1]]
    IN  IF addr = 0 THEN [s |-> s1, code |-> 0]
        ELSE IF LockRejects(mems[unitID], u1, addr) THEN [s |-> s1, code |-> 4]
        ELSE IF addr \in READ_ONLY_REGISTERS \/ isU00Register(addr) \/ isU01Register(addr)
             THEN [s |-> s1, code |-> 2]
        ELSE IF addr \in ControlAddrs /\ ControlRejects(addr, val) THEN [s |-> s1, code |-> 3]
        ELSE IF u1.unlocked
             THEN [s |-> [s1 EXCEPT !.unlock[unitID].lastActivity = t], code |-> 0]
             ELSE [s |-> s1, code |-> 0]

\* validateWriteRequest(addr, val, unitID, io) at time t on handler state s:
\* [s |-> state after the call, code |-> 0 when valid, else the exception code]
validateWriteRequest(s, addr, val, unitID, devs, t) ==
    LET mems == getMem(s.memory, devs, unitID)
        us0 == getUnlockState(s.unlock, unitID)
        u0 == us0[unitID]
        u1 == IF AutoLockDue(u0, t) THEN [u0 EXCEPT !.unlocked = FALSE] ELSE u0
        s1 == [s EXCEPT !.memory = mems, !.unlock = [us0 EXCEPT ![unitID] = u1]]
    IN  IF addr = 0 THEN [s |-> s1, code |-> 0]
        ELSE IF addr \in READ_ONLY_REGISTERS \/ isU00Register(addr) \/ isU01Register(addr)
             THEN [s |-> s1, code |-> 2]
        ELSE IF LockRejects(mems[unitID], u1, addr) THEN [s |-> s1, code |-> 4]
        ELSE IF addr \in ControlAddrs /\ ControlRejects(addr, val) THEN [s |-> s1, code |-> 3]
        ELSE IF u1.unlocked
             THEN [s |-> [s1 EXCEPT !.unlock[unitID].lastActivity = t], code |-> 0]
             ELSE [s |-> s1, code |-> 0]

\* handlePasswordWrite(addr, val, unitID, io): runs after mem[addr] = val
handlePasswordWrite(s, addr, val, unitID, devs, t) ==
    IF addr # 0 THEN s
    ELSE LET mems == getMem(s.memory, devs, unitID)
             us0 == getUnlockState(s.unlock, unitID)
             storedPassword == MemRead(mems[unitID], 0)
             s1 == [s EXCEPT !.memory = mems, !.unlock = us0,
                             !.hooks = Append(@, << "password", unitID, val >>)]
         IN  IF storedPassword = 0 THEN s1
             ELSE IF val = storedPassword
                  THEN [s1 EXCEPT !.unlock[unitID] =
                                      [unlocked |-> TRUE, lastActivity |-> t]]
                  ELSE s1

\* handleControlCommand(val, unitID)
ControlRegs ==
    << \h3000, \h0300, \h3002, \h0302, \h3003, \h0303,
       \h3004, \h0304, \h3005, \h0305, \h3023, \h0323 >>

RunValue(r, id) ==
    CASE r \in {\h3000, \h0300} -> id * 10 * 100
      [] r \in {\h3002, \h0302} -> (100 + id * 10) * 10
      [] r \in {\h3003, \h0303} -> id * 10
      [] r \in {\h3004, \h0304} -> id * 10
      [] r \in {\h3005, \h0305} -> id * 100
      [] r \in {\h3023, \h0323} -> id

\* regs.forEach(r => { mem[r] = run ? values[r] : 0 })
RECURSIVE WriteRegs(_, _, _, _, _)
WriteRegs(m, regs, i, run, id) ==
    IF i > Len(regs) THEN m
    ELSE WriteRegs(MemWrite(m, regs[i], IF run THEN RunValue(regs[i], id) ELSE 0),
                   regs, i + 1, run, id)

\* updates[r] of the regs-update-batch event the command emits
Updates(run, id) ==
    [r \in { ControlRegs[i] : i \in 1..Len(ControlRegs) } |->
        IF run THEN RunValue(r, id) ELSE 0]

\* mutant: the telemetry of unit 1 is written, whichever unit got the command
handleControlCommand_FirstUnit(s, val, unitID, devs) ==
    LET mems == getMem(s.memory, devs, 1)
        s1 == [s EXCEPT !.memory = mems,
                        !.hooks = Append(@, << "control", unitID, val >>)]
    IN  IF val \in {5, 6, 0}
        THEN [s1 EXCEPT !.memory[1] = WriteRegs(@, ControlRegs, 1, FALSE, unitID),
                        !.emitted = Append(@, << "regs-update-batch", unitID,
                                                 Updates(FALSE, unitID) >>)]
        ELSE IF val \in {1, 2, 3, 4}
        THEN [s1 EXCEPT !.memory[1] = WriteRegs(@, ControlRegs, 1, TRUE, unitID),
                        !.emitted = Append(@, << "regs-update-batch", unitID,
                                                 Updates(TRUE, unitID) >>)]
        ELSE s1

handleControlCommand(s, val, unitID, devs) ==
    LET mems == getMem(s.memory, devs, unitID)
        s1 == [s EXCEPT !.memory = mems,
                        !.hooks = Append(@, << "control", unitID, val >>)]
    IN  IF val \in {5, 6, 0}
        THEN [s1 EXCEPT !.memory[unitID] = WriteRegs(@, ControlRegs, 1, FALSE, unitID),
                        !.emitted = Append(@, << "regs-update-batch", unitID,
                                                 Updates(FALSE, unitID) >>)]
        ELSE IF val \in {1, 2, 3, 4}
        THEN [s1 EXCEPT !.memory[unitID] = WriteRegs(@, ControlRegs, 1, TRUE, unitID),
                        !.emitted = Append(@, << "regs-update-batch", unitID,
                                                 Updates(TRUE, unitID) >>)]
        ELSE s1

\* handleParameterWrite(addr, val, unitID): reports the named parameters
ParamAddrs == {\h8000, \h8001, \h8006, \h8200, \h840A}

handleParameterWrite(s, addr, val, unitID) ==
    IF addr \in ParamAddrs
    THEN [s EXCEPT !.hooks = Append(@, << "parameter", unitID, addr >>)]
    ELSE s

(***************************************************************************)
(* handleFrame.  s is the state the handler works on:                      *)
(*   [memory, unlock, buffer, rx, tx, hooks, thrown]                       *)
(* devs is the registry, open is serialPort.isOpen, t is Date.now().       *)
(***************************************************************************)
\* mutant: the function code returned without its error flag
buildExceptionResponse_NoFlag(unitID, fc, errorCode) ==
    Seal(<< unitID, fc, errorCode >>)

buildExceptionResponse(unitID, fc, errorCode) ==
    Seal(<< unitID, Or(fc, 128), errorCode >>)

\* for (i = 0; i < count; i++) response.writeUInt16BE(mem[addr + i] || 0, ...)
\* mutant: the window read one register too high
ReadValues_OffByOne(mem, addr, i, count) ==
    [k \in 1..(2 * (count - i)) |->
        IF k % 2 = 1 THEN Hi(MemRead(mem, addr + i + 1 + (k - 1) \div 2))
                     ELSE Lo(MemRead(mem, addr + i + 1 + (k - 1) \div 2))]

\* (the data bytes of registers i .. count - 1, high byte first)
ReadValues(mem, addr, i, count) ==
    [k \in 1..(2 * (count - i)) |->
        IF k % 2 = 1 THEN Hi(MemRead(mem, addr + i + (k - 1) \div 2))
                     ELSE Lo(MemRead(mem, addr + i + (k - 1) \div 2))]

\* fc 3 / 4: [thrown, response]; writeUInt8(bytes, 2) throws when bytes > 255
ReadResponse(mem, frame) ==
    LET unitID == frame[1]
        fc == frame[2]
        addr == ReadUInt16BE(frame, 2)
        count == ReadUInt16BE(frame, 4)
        bytes == count * 2
    IN  IF bytes > 255
        THEN [thrown |-> TRUE, response |-> << >>]
        ELSE [thrown |-> FALSE,
              response |-> Seal(<< unitID, fc, bytes >> \o ReadValues(mem, addr, 0, count))]

\* the write of one accepted register and the hooks that follow it
ApplyWrite(s, addr, val, unitID, devs, t) ==
    LET s1 == [s EXCEPT !.memory[unitID] = MemWrite(@, addr, val),
                        !.immediates = Append(@, << "reg-update", unitID, addr, val >>)]
        s2 == handlePasswordWrite(s1, addr, val, unitID, devs, t)
        s3 == IF addr = \h2000 THEN handleControlCommand(s2, val, unitID, devs) ELSE s2
    IN  handleParameterWrite(s3, addr, val, unitID)

\* mutant: each register written as soon as it has been validated
RECURSIVE ValidateAll_WriteAsYouGo(_, _, _, _, _, _, _, _)
ValidateAll_WriteAsYouGo(s, i, count, addr, data, unitID, devs, t) ==
    IF i >= count THEN [s |-> s, code |-> 0, thrown |-> FALSE]
    ELSE IF ~ReadInRange(data, i * 2) THEN [s |-> s, code |-> 0, thrown |-> TRUE]
    ELSE LET v == validateWriteRequest(s, addr + i, ReadUInt16BE(data, i * 2),
                                       unitID, devs, t)
         IN  IF v.code # 0 THEN [s |-> v.s, code |-> v.code, thrown |-> FALSE]
             ELSE ValidateAll_WriteAsYouGo(
                      ApplyWrite(v.s, addr + i, ReadUInt16BE(data, i * 2), unitID, devs, t),
                      i + 1, count, addr, data, unitID, devs, t)

\* fc 16, first loop: validate registers i.. until one fails;
\* data.readUInt16BE(i * 2) throws when the data is shorter than count words
RECURSIVE ValidateAll(_, _, _, _, _, _, _, _)
ValidateAll(s, i, count, addr, data, unitID, devs, t) ==
    IF i >= count THEN [s |-> s, code |-> 0, thrown |-> FALSE]
    ELSE IF ~ReadInRange(data, i * 2) THEN [s |-> s, code |-> 0, thrown |-> TRUE]
    ELSE LET v == validateWriteRequest(s, addr + i, ReadUInt16BE(data, i * 2),
                                       unitID, devs, t)
         IN  IF v.code # 0 THEN [s |-> v.s, code |-> v.code, thrown |-> FALSE]
             ELSE ValidateAll(v.s, i + 1, count, addr, data, unitID, devs, t)

\* fc 16, second loop: write all registers
RECURSIVE WriteAll(_, _, _, _, _, _, _, _)
WriteAll(s, i, count, addr, data, unitID, devs, t) ==
    IF i >= count THEN s
    ELSE WriteAll(ApplyWrite(s, addr + i, ReadUInt16BE(data, i * 2), unitID, devs, t),
                  i + 1, count, addr, data, unitID, devs, t)

\* mutant: the response put ahead of the responses already handed to the port
Respond_Ahead(s, response, open) ==
    IF open THEN [s EXCEPT !.tx = << response >> \o @] ELSE s

\* if (response) { if (!serialPort.isOpen) return; serialPort.write(response) }
Respond(s, response, open) ==
    IF open THEN [s EXCEPT !.tx = Append(@, response)] ELSE s

\* mutant: only a disabled device is passed over, an unknown unit is served
Ignored_DisabledOnly(devs, unitID) ==
    unitID \in DOMAIN devs /\ ~devs[unitID].enabled

\* the two early returns of handleFrame: if (!devices.has(unitID)) return;
\* if (!isDeviceEnabled(unitID)) return
Ignored(devs, unitID) ==
    unitID \notin DOMAIN devs \/ ~isDeviceEnabled(devs, unitID)

handleFrame(s, frame, devs, open, t) ==
    LET unitID == frame[1]
        fc == frame[2]
    IN  IF Ignored(devs, unitID) THEN s
        ELSE
        LET s0 == [s EXCEPT !.memory = getMem(s.memory, devs, unitID)]
        IN  IF fc = 3 \/ fc = 4 THEN
                LET r == ReadResponse(s0.memory[unitID], frame)
                IN  IF r.thrown THEN [s0 EXCEPT !.thrown = TRUE]
                    ELSE Respond(s0, r.response, open)
            ELSE IF fc = 6 THEN
                LET addr == ReadUInt16BE(frame, 2)
                    val == ReadUInt16BE(frame, 4)
                    v == validateWriteRequest(s0, addr, val, unitID, devs, t)
                IN  IF v.code # 0
                    THEN Respond(v.s, buildExceptionResponse(unitID, fc, v.code), open)
                    ELSE Respond(ApplyWrite(v.s, addr, val, unitID, devs, t), frame, open)
            ELSE IF fc = 16 THEN
                LET addr == ReadUInt16BE(frame, 2)
                    count == ReadUInt16BE(frame, 4)
                    byteCount == frame[7]
                    data == Subarray(frame, 7, 7 + byteCount)
                    v == ValidateAll(s0, 0, count, addr, data, unitID, devs, t)
                IN  IF v.thrown THEN [v.s EXCEPT !.thrown = TRUE]
                    ELSE IF v.code # 0
                    THEN Respond(v.s, buildExceptionResponse(unitID, fc, v.code), open)
                    ELSE Respond(WriteAll(v.s, 0, count, addr, data, unitID, devs, t),
                                 Seal(<< unitID, fc, Hi(addr), Lo(addr),
                                         Hi(count), Lo(count) >>),
                                 open)
            ELSE s0

(***************************************************************************)
(* processBuffer: the resynchronising frame extraction loop.               *)
(***************************************************************************)
SupportedFCs == {3, 4, 6, 16}

\* if (start > 0) buffer = buffer.subarray(start)
Trim(s, start) ==
    [s EXCEPT !.buffer = Subarray(@, start, Len(@))]

\* expected length of the frame candidate at start (0 when the byte count of an
\* fc 16 candidate has not arrived yet)
FrameLen(buf, start) ==
    IF buf[start + 2] = 16
    THEN IF start + 7 > Len(buf) THEN 0 ELSE 9 + buf[start + 7]
    ELSE 8

CrcMatches(frame) ==
    ReadUInt16LE(frame, Len(frame) - 2) = calculateCRC(Subarray(frame, 0, Len(frame) - 2))

RECURSIVE ParseLoop(_, _, _, _, _)
ParseLoop(s, start, devs, open, t) ==
    LET buf == s.buffer
    IN  IF start + 4 > Len(buf) THEN Trim(s, start)
        ELSE IF buf[start + 2] \notin SupportedFCs
        THEN ParseLoop(s, start + 1, devs, open, t)
        ELSE
        LET len == FrameLen(buf, start)
        IN  IF len = 0 \/ start + len > Len(buf) THEN Trim(s, start)
            ELSE
            LET frame == Subarray(buf, start, start + len)
            IN  IF CrcMatches(frame)
                THEN LET s1 == handleFrame([s EXCEPT !.rx = Append(@, frame)],
                                           frame, devs, open, t)
                     IN  IF s1.thrown THEN s1
                         ELSE ParseLoop(Trim(s1, start + len), 0, devs, open, t)
                ELSE ParseLoop(s, start + 1, devs, open, t)

processBuffer(s, devs, open, t) ==
    IF Len(s.buffer) > MAX_BUFFER_SIZE
    THEN [s EXCEPT !.buffer = << >>]
    ELSE ParseLoop(s, 0, devs, open, t)

\* serialPort.on('data'): buffer = Buffer.concat([buffer, data]); processBuffer()
OnData(data) ==
    processBuffer([memory |-> memory, unlock |-> deviceUnlockState,
                   buffer |-> buffer \o data,
                   rx |-> << >>, tx |-> << >>, hooks |-> << >>, thrown |-> FALSE,
                   emitted |-> << >>, immediates |-> << >>],
                  devices, portOpen, now)

(***************************************************************************)
(* Persistence of the register memory.                                     *)
(***************************************************************************)
EmptyMap == [x \in {} |-> 0]

\* saveMemoryConfig: the non-zero values of every array that has one
saveMemoryConfig(mems) ==
    [id \in {x \in DOMAIN mems : DOMAIN mems[x] # {}} |-> mems[id]]

\* loadMemoryConfig: a zeroed array per persisted id (whether or not the id is in
\* the registry, and without the type defaults), then the persisted values
loadMemoryConfig(file) ==
    [id \in DOMAIN file |-> [a \in DOMAIN file[id] |-> file[id][a]]]

\* mutant: the roster saved with every device switched on
saveDevicesConfig_AllEnabled(devs) ==
    [exists |-> TRUE, devices |-> [id \in DOMAIN devs |-> [devs[id] EXCEPT !.enabled = TRUE]]]

\* saveDevicesConfig: the roster as it is, property by property
saveDevicesConfig(devs) == [exists |-> TRUE, devices |-> devs]

(***************************************************************************)
(* The master: requests built as a Modbus master builds them.              *)
(***************************************************************************)
ReadFrame(id, fc, addr, count) ==
    Seal(<< id, fc, Hi(addr), Lo(addr), Hi(count), Lo(count) >>)

WriteSingleFrame(id, addr, val) ==
    Seal(<< id, 6, Hi(addr), Lo(addr), Hi(val), Lo(val) >>)

RECURSIVE WordBytes(_, _)
WordBytes(vals, i) ==
    IF i > Len(vals) THEN << >>
    ELSE << Hi(vals[i]), Lo(vals[i]) >> \o WordBytes(vals, i + 1)

WriteMultiFrame(id, addr, vals) ==
    Seal(<< id, 16, Hi(addr), Lo(addr), Hi(Len(vals)), Lo(Len(vals)), 2 * Len(vals) >>
         \o WordBytes(vals, 1))

\* the inverter the requests of the dispatcher scenarios address
Inv1 == 1

\* lock scenario: password, protection, timeout.  << addr, val >>
LockSingles ==
    { << 0, 1234 >>, << 0, 4321 >>, << \h0B15, 50 >>, << \h3000, 255 >> }

LockMultis ==
    { << 0, << 1234, 0 >> >>, << \h2FFF, << 9, 0 >> >>, << \h31FF, << 1, 5 >> >> }

LockRequests ==
    { WriteSingleFrame(Inv1, w[1], w[2]) : w \in LockSingles }
    \cup { WriteMultiFrame(Inv1, w[1], w[2]) : w \in LockMultis }
    \cup { ReadFrame(Inv1, 3, 0, 3), ReadFrame(Inv1, 4, \h0B15, 1) }

LockOperatorWrites ==
    { << Inv1, 0, 1234 >>, << Inv1, 2, 1 >> }

\* write scenario: read-only registers, control registers, write multiple
WriteSingles ==
    { << 0, 1234 >>, << 2, 1 >>,
      << \h3000, 255 >>, << \h30FF, 1 >>, << \h3100, 1 >>, << \h31FF, 1 >>,
      << \h2100, 1 >>, << \h2101, 1 >>,
      << \h2000, 7 >>, << \h2000, 8 >>,
      << \h2001, 60000 >>, << \h2001, 60001 >>,
      << \h2002, 1000 >>, << \h2002, 1001 >>,
      << \h2003, 1000 >>, << \h2003, 1001 >>,
      << \h2004, 3000 >>, << \h2004, 3001 >>,
      << \h2004, 62536 >>, << \h2004, 65535 >> }

WriteMultis ==
    { << \h2000, << 7, 60000 >> >>,
      << \h2000, << 1, 60001 >> >>,
      << \h20FF, << 5, 1 >> >>,
      << 0, << 1234, 0 >> >> }

WriteRequests ==
    { WriteSingleFrame(Inv1, w[1], w[2]) : w \in WriteSingles }
    \cup { WriteMultiFrame(Inv1, w[1], w[2]) : w \in WriteMultis }

\* stream scenario: the frames and the noise runs the master may put on the wire
ReadHoldingTelemetry == ReadFrame(Inv1, 3, \h3000, 2)
WriteAccelTime == WriteSingleFrame(Inv1, \h0B15, 50)
WriteAccelTimeMulti == WriteMultiFrame(Inv1, \h0B15, << 50 >>)
ReadAbsentUnit == ReadFrame(16, 3, 0, 1)
ReadTooMany == ReadFrame(Inv1, 3, 0, 128)

StreamFrames ==
    { ReadHoldingTelemetry, WriteAccelTime, WriteAccelTimeMulti, ReadAbsentUnit,
      ReadTooMany }

NoiseRuns == { << 0 >>, << 255, 255, 255 >> }

StreamItems == StreamFrames \cup NoiseRuns

\* meter scenario: writes to the flow meter 110 and to 111 made an energy meter
Flow110 == 110
Meter111 == 111
MeterIds == {Flow110, Meter111}

MeterSingles == { << \h2000, 1 >>, << \h2000, 8 >>, << \h3000, 7 >> }

MeterRequests ==
    { WriteSingleFrame(id, w[1], w[2]) : id \in MeterIds, w \in MeterSingles }
    \cup { WriteMultiFrame(Meter111, \h0106, << 5, 6 >>) }

MeterOperatorWrites == { << Flow110, \h2000, 1 >> }

\* read scenario: read requests with every kind of count, a request with a bad
\* CRC, and the writes whose values the reads return
BadCrcRead == << 1, 3, 11, 21, 0, 1, 0, 0 >>

ReadRequests ==
    { ReadFrame(Inv1, 3, \h0B15, 1), ReadFrame(Meter111, 4, \h0800, 1),
      ReadFrame(Inv1, 4, 0, 0), ReadFrame(Inv1, 3, 0, 126), ReadFrame(Inv1, 3, 0, 128),
      ReadFrame(Inv1, 4, \hFFFF, 2),
      BadCrcRead,
      WriteSingleFrame(Inv1, \h0B15, 50), WriteSingleFrame(Meter111, \h0800, 5) }

\* control scenario: commands to inverter 1 and to unit 110 made an inverter
ControlRequests ==
    { WriteSingleFrame(Inv1, \h2000, v) : v \in 0..7 }
    \cup { WriteSingleFrame(Flow110, \h2000, v) : v \in {0, 1, 3, 6} }

\* registry scenario: inverter 1 is switched off and on, unit 9 (not in the built-in
\* roster) is added and removed; requests of every function code go to both
Spare9 == 9

WriteCoilFrame(id) == Seal(<< id, 5, 0, 0, 255, 0 >>)

RegistryRequests ==
    { ReadFrame(Inv1, 3, \h0B15, 1), WriteSingleFrame(Inv1, 0, 1234),
      WriteMultiFrame(Inv1, \h0B15, << 50 >>),
      ReadFrame(Spare9, 3, \h0B15, 1), ReadFrame(Spare9, 4, \h3000, 2),
      WriteSingleFrame(Spare9, \h0B15, 50), WriteMultiFrame(Spare9, \h0B15, << 50 >>),
      WriteCoilFrame(Spare9) }

\* persistence scenario: unit 9 comes and goes, the operator reads and writes
\* registers of it and of inverter 1, the process is restarted
PersistRequests ==
    { WriteSingleFrame(Spare9, \h0B15, 51), ReadFrame(Inv1, 3, \h0B15, 1) }

\* operator scenarios: the port stays closed; devices are added, removed, retyped,
\* switched off and on and put in manual mode, registers are set, the process is
\* restarted.  248 is the first id past the Modbus slave range
Beyond248 == 248
AddableIds == {Spare9, Beyond248}
AddableTypes == {"inverter", "flowmeter"}
SimulationModes == {"random", "manual"}

RosterIds == {Inv1, Spare9}

ReloadWrites == { << Inv1, \h0B15, 50 >>, << Inv1, \h2000, 1 >> }

\* close scenario: a read request reaches the simulator in two pieces, or whole,
\* while the port is stopped, lost and started again
SplitRead == ReadFrame(Inv1, 3, \h0B15, 1)
SplitReadHead == SubSeq(SplitRead, 1, 5)
SplitReadTail == SubSeq(SplitRead, 6, 8)
CloseChunks == { SplitRead, SplitReadHead, SplitReadTail, WriteAccelTime }

\* two-slave scenario: inverters 1 and 2 get a read, a password write and run commands
\* from the master and register changes from the operator
Inv2 == 2

PairRequests ==
    { ReadFrame(Inv1, 3, \h3000, 2), WriteSingleFrame(Inv1, \h2000, 1),
      WriteSingleFrame(Inv2, 0, 1234), WriteSingleFrame(Inv2, \h2000, 1) }

PairOperatorWrites == { << Inv1, \h2000, 5 >>, << Inv2, \h0B15, 51 >> }

\* precedence scenario: single writes to the password, the protection flag, read-only
\* registers, control registers (in and out of range) and a parameter, on an inverter
\* whose password and protection flag the operator may set.  << addr, val >>
PrecedenceSingles ==
    { << 0, 1234 >>, << 2, 0 >>, << \h3000, 1 >>, << \h2100, 1 >>,
      << \h2000, 9 >>, << \h2000, 1 >>, << \h2001, 60001 >>, << \h0B15, 50 >> }

PrecedenceRequests == { WriteSingleFrame(Inv1, w[1], w[2]) : w \in PrecedenceSingles }

PrecedenceOperatorWrites == { << Inv1, 0, 1234 >>, << Inv1, 2, 1 >> }

\* the longest frame the parser waits for: a write multiple with byte count 255
MaxFrameLen == 9 + 255

\* flood scenario: the driver hands over one chunk longer than the buffer limit, a read
\* request followed by idle-line zeros, and one as long as the longest frame, a read
\* of 128 registers followed by the first bytes of a write multiple of 127 registers,
\* besides requests whole and in two parts
Flood == SplitRead \o [i \in 1..(MAX_BUFFER_SIZE - 7) |-> 0]

LongRead ==
    ReadTooMany \o << Inv1, 16, 0, 0, 0, 127, 254 >> \o [i \in 1..(MaxFrameLen - 15) |-> 0]

FloodChunks ==
    { SplitRead, SplitReadHead, SplitReadTail, WriteAccelTime, WriteAccelTimeMulti,
      WriteSingleFrame(Inv1, \h2000, 1), Flood, LongRead }

\* drain scenario: the requests the master may put on the wire back to back
DrainItems == { ReadHoldingTelemetry, WriteAccelTime, ReadAbsentUnit }

\* guess scenario: the operator sets a password and the protection flag; the master
\* writes passwords, the protection flag and a parameter, single and multiple
GuessRequests ==
    { WriteSingleFrame(Inv1, 0, 1234), WriteSingleFrame(Inv1, 0, 4321),
      WriteSingleFrame(Inv1, 2, 0), WriteSingleFrame(Inv1, 2, 1),
      WriteSingleFrame(Inv1, \h0B15, 50), WriteMultiFrame(Inv1, 0, << 4321, 7 >>) }

GuessOperatorWrites == { << Inv1, 0, 1234 >>, << Inv1, 2, 1 >> }

\* re-creation scenario: the master writes the password of inverter 1 and of unit 9
\* and a parameter; unit 9 is removed and added again, inverter 1 gets a type anew
RecreateRequests ==
    { WriteSingleFrame(Inv1, 0, 1234), WriteSingleFrame(Spare9, 0, 1234),
      WriteSingleFrame(Spare9, \h0B15, 50) }

\* event scenario: writes of a parameter, of a mirrored telemetry register and of the
\* run and stop commands, put on the wire back to back
EventItems ==
    { WriteAccelTime, WriteSingleFrame(Inv1, \h0300, 7),
      WriteSingleFrame(Inv1, \h2000, 1), WriteSingleFrame(Inv1, \h2000, 5) }

\* time passes in these steps (ms)
TimeSteps == {150000, 150001}

(***************************************************************************)
(* State after construction: default roster, no files, port not opened.    *)
(***************************************************************************)
DefaultRoster ==
    [id \in {1, 2, 3, 4, 5, 110, 111} |->
        [type |-> IF id >= 110 THEN "flowmeter" ELSE "inverter",
         enabled |-> TRUE,
         simulationMode |-> "none"]]

\* loadDevicesConfig: the persisted roster replaces the built-in one; a device
\* persisted without simulationMode gets 'random'
loadDevicesConfig(file) ==
    IF file.exists
    THEN [id \in DOMAIN file.devices |->
            IF file.devices[id].simulationMode = "none"
            THEN [file.devices[id] EXCEPT !.simulationMode = "random"]
            ELSE file.devices[id]]
    ELSE DefaultRoster

Init ==
    /\ devices = DefaultRoster
    /\ memory = EmptyMap
    /\ deviceUnlockState = EmptyMap
    /\ buffer = << >>
    /\ portOpen = FALSE
    /\ simInterval = FALSE
    /\ memoryFile = EmptyMap
    /\ devicesFile = [exists |-> FALSE, devices |-> EmptyMap]
    /\ result = [success |-> TRUE, error |-> ""]
    /\ draining = FALSE
    /\ events = << >>
    /\ now = StartTime
    /\ rx = << >>
    /\ tx = << >>
    /\ hooks = << >>
    /\ thrown = FALSE
    /\ lastWrite = EmptyMap
    /\ sent = << >>
    /\ pos = 0
    /\ yielded = << >>

(***************************************************************************)
(* Actions.                                                                *)
(***************************************************************************)
\* socket.on('start-server') and the port's 'open' event (startSimulation)
StartServer ==
    /\ ~portOpen
    /\ portOpen' = TRUE
    /\ simInterval' = TRUE
    /\ UNCHANGED << devices, memory, deviceUnlockState, buffer, memoryFile, devicesFile, now,
                    rx, tx, hooks, thrown, lastWrite, sent, pos, yielded, result, draining, events >>

\* socket.on('stop-server') and the 'close' event that follows (stopSimulation)
StopServer ==
    /\ portOpen
    /\ buffer' = << >>
    /\ portOpen' = FALSE
    /\ simInterval' = FALSE
    /\ UNCHANGED << devices, memory, deviceUnlockState, memoryFile, devicesFile, now,
                    rx, tx, hooks, thrown, lastWrite, sent, pos, yielded, result, draining, events >>

\* the result of a data event becomes the state; the setImmediate callbacks queued
\* by the handler run, in the order queued, once the handler is through
Apply(r) ==
    /\ memory' = r.memory
    /\ deviceUnlockState' = r.unlock
    /\ buffer' = r.buffer
    /\ rx' = r.rx
    /\ tx' = r.tx
    /\ hooks' = r.hooks
    /\ thrown' = r.thrown
    /\ events' = r.emitted \o r.immediates

\* what the master notes of the exchange for request f answered by responses
IsWriteFrame(f) == f[2] = 6 \/ f[2] = 16
IsException(resp) == Len(resp) = 5 /\ resp[2] >= 128
Answered(responses) == Len(responses) = 1 /\ ~IsException(responses[1])

NoteWrite(lw, f, responses, t) ==
    IF ~IsWriteFrame(f) THEN lw
    ELSE LET id == f[1]
             old == IF id \in DOMAIN lw THEN lw[id] ELSE [at |-> 0, acceptedAt |-> 0]
             new == [at |-> t,
                     acceptedAt |-> IF Answered(responses) THEN t ELSE old.acceptedAt]
         IN  [x \in DOMAIN lw \cup {id} |-> IF x = id THEN new ELSE lw[x]]

\* serialPort.on('data') with one whole request of the master as the chunk
MasterRequest(f) ==
    /\ portOpen
    /\ LET r == OnData(f)
       IN  /\ Apply(r)
           /\ draining' = (draining \/ r.tx # << >>)
           /\ lastWrite' = NoteWrite(lastWrite, f, r.tx, now)
    /\ UNCHANGED << devices, portOpen, simInterval, memoryFile, devicesFile, now, sent, pos, yielded, result >>

\* serialPort.on('data') with any chunk of bytes the driver hands over
Receive(chunk) ==
    /\ portOpen
    /\ LET r == OnData(chunk)
       IN  /\ Apply(r)
           /\ draining' = (draining \/ r.tx # << >>)
    /\ UNCHANGED << devices, portOpen, simInterval, memoryFile, devicesFile, now,
                    lastWrite, sent, pos, yielded, result >>

\* time passes
AdvanceTime(d) ==
    /\ now + d <= StartTime + MaxElapsed
    /\ now' = now + d
    /\ UNCHANGED << devices, memory, deviceUnlockState, buffer, portOpen, simInterval,
                    memoryFile, devicesFile, rx, tx, hooks, thrown, lastWrite, sent,
                    pos, yielded, result, draining, events >>

\* const targetID = parseInt(id) || 1
TargetID(id) == IF id = 0 THEN 1 ELSE id

\* socket.on('set-register', {id, addr, val})
SetRegister(id, addr, val) ==
    LET targetID == TargetID(id)
        mems == getMem(memory, devices, targetID)
        written == [mems EXCEPT ![targetID] = MemWrite(@, addr, val)]
        s1 == [memory |-> written, unlock |-> deviceUnlockState, buffer |-> buffer,
               rx |-> << >>, tx |-> << >>, hooks |-> << >>, thrown |-> FALSE,
               emitted |-> << << "reg-update", targetID, addr, val >> >>,
               immediates |-> << >>]
        s2 == IF addr = \h2000
              THEN handleControlCommand(s1, val, targetID, devices) ELSE s1
    IN  /\ memoryFile' = saveMemoryConfig(written)
        /\ Apply(s2)
        /\ UNCHANGED << devices, portOpen, simInterval, devicesFile, now, lastWrite,
                        sent, pos, yielded, result, draining >>

\* socket.on('get-register', {id, addr}): getMem allocates the array it reads
GetRegister(id, addr) ==
    /\ memory' = getMem(memory, devices, TargetID(id))
    /\ UNCHANGED << devices, deviceUnlockState, buffer, portOpen, simInterval,
                    memoryFile, devicesFile, now, rx, tx, hooks, thrown, lastWrite,
                    sent, pos, yielded, result, draining, events >>

\* io.on('connection'): the register state of every device is sent to the client
RECURSIVE AllocateAll(_, _, _)
AllocateAll(mems, devs, ids) ==
    IF ids = {} THEN mems
    ELSE LET id == CHOOSE x \in ids : TRUE
         IN  AllocateAll(getMem(mems, devs, id), devs, ids \ {id})

Connect ==
    /\ memory' = AllocateAll(memory, devices, DOMAIN devices)
    /\ UNCHANGED << devices, deviceUnlockState, buffer, portOpen, simInterval,
                    memoryFile, devicesFile, now, rx, tx, hooks, thrown, lastWrite,
                    sent, pos, yielded, result, draining, events >>

\* a map with key k set to value v
Put(map, k, v) == [x \in DOMAIN map \cup {k} |-> IF x = k THEN v ELSE map[x]]

\* a map without key k
Drop(map, k) == [x \in DOMAIN map \ {k} |-> map[x]]

\* mutant: an array already held under the id is kept
addDevice_KeepMemory(devs, mems, file, slaveId, type) ==
    IF slaveId \in DOMAIN devs
    THEN [devices |-> devs, memory |-> mems, file |-> file,
          result |-> [success |-> FALSE,
                      error |-> "Device with this Slave ID already exists"]]
    ELSE LET added == Put(devs, slaveId,
                          [type |-> type, enabled |-> TRUE, simulationMode |-> "random"])
         IN  [devices |-> added,
              memory |-> getMem(mems, added, slaveId),
              file |-> saveDevicesConfig(added),
              result |-> [success |-> TRUE, error |-> ""]]

\* addDevice(slaveId, type) on the roster, the memory map and devices.json
addDevice(devs, mems, file, slaveId, type) ==
    IF slaveId \in DOMAIN devs
    THEN [devices |-> devs, memory |-> mems, file |-> file,
          result |-> [success |-> FALSE,
                      error |-> "Device with this Slave ID already exists"]]
    ELSE LET added == Put(devs, slaveId,
                          [type |-> type, enabled |-> TRUE, simulationMode |-> "random"])
         IN  [devices |-> added,
              memory |-> Put(mems, slaveId, DefaultsOf(type)),
              file |-> saveDevicesConfig(added),
              result |-> [success |-> TRUE, error |-> ""]]

\* mutant: the roster is saved before the id is looked up
removeDevice_SaveFirst(devs, mems, file, slaveId) ==
    IF slaveId \notin DOMAIN devs
    THEN [devices |-> devs, memory |-> mems, file |-> saveDevicesConfig(devs),
          result |-> [success |-> FALSE, error |-> "Device not found"]]
    ELSE [devices |-> Drop(devs, slaveId),
          memory |-> Drop(mems, slaveId),
          file |-> saveDevicesConfig(Drop(devs, slaveId)),
          result |-> [success |-> TRUE, error |-> ""]]

\* removeDevice(slaveId)
removeDevice(devs, mems, file, slaveId) ==
    IF slaveId \notin DOMAIN devs
    THEN [devices |-> devs, memory |-> mems, file |-> file,
          result |-> [success |-> FALSE, error |-> "Device not found"]]
    ELSE [devices |-> Drop(devs, slaveId),
          memory |-> Drop(mems, slaveId),
          file |-> saveDevicesConfig(Drop(devs, slaveId)),
          result |-> [success |-> TRUE, error |-> ""]]

\* socket.on('add-device', {slaveId, type}): the result goes to the client
AddDevice(slaveId, type) ==
    LET r == addDevice(devices, memory, devicesFile, slaveId, type)
    IN  /\ devices' = r.devices
        /\ memory' = r.memory
        /\ devicesFile' = r.file
        /\ result' = r.result
        /\ UNCHANGED << deviceUnlockState, buffer, portOpen, simInterval, memoryFile,
                        now, rx, tx, hooks, thrown, lastWrite, sent, pos, yielded,
                        draining, events >>

\* socket.on('remove-device', {slaveId}): the result goes to the client
RemoveDevice(slaveId) ==
    LET r == removeDevice(devices, memory, devicesFile, slaveId)
    IN  /\ devices' = r.devices
        /\ memory' = r.memory
        /\ devicesFile' = r.file
        /\ result' = r.result
        /\ UNCHANGED << deviceUnlockState, buffer, portOpen, simInterval, memoryFile,
                        now, rx, tx, hooks, thrown, lastWrite, sent, pos, yielded,
                        draining, events >>

\* mutant: the array the unit already has is kept
setDeviceType_KeepMemory(devs, mems, unitID, type) ==
    [devices |-> IF unitID \in DOMAIN devs
                 THEN [devs EXCEPT ![unitID].type = type] ELSE devs,
     memory |-> getMem(mems, devs, unitID)]

\* setDeviceType(unitID, type): the type is set, the memory is made anew
setDeviceType(devs, mems, unitID, type) ==
    [devices |-> IF unitID \in DOMAIN devs
                 THEN [devs EXCEPT ![unitID].type = type] ELSE devs,
     memory |-> Put(mems, unitID, DefaultsOf(type))]

\* socket.on('set-device-type', {id, type}) -> setDeviceType; the roster is saved
\* before simulationMode gets its default
SetDeviceType(id, type) ==
    IF id \notin DOMAIN devices
    THEN UNCHANGED vars
    ELSE LET r == setDeviceType(devices, memory, id, type)
             typed == r.devices
         IN  /\ memory' = r.memory
             /\ devicesFile' = saveDevicesConfig(typed)
             /\ devices' = IF typed[id].simulationMode = "none"
                           THEN [typed EXCEPT ![id].simulationMode = "random"]
                           ELSE typed
             /\ UNCHANGED << deviceUnlockState, buffer, portOpen, simInterval,
                             memoryFile, now, rx, tx, hooks, thrown, lastWrite,
                             sent, pos, yielded, result, draining, events >>

\* socket.on('toggle-inverter', {id, enabled})
ToggleInverter(id, enabled) ==
    IF id \notin DOMAIN devices
    THEN UNCHANGED vars
    ELSE /\ devices' = [devices EXCEPT ![id].enabled = enabled]
         /\ devicesFile' = saveDevicesConfig(devices')
         /\ UNCHANGED << memory, deviceUnlockState, buffer, portOpen, simInterval,
                         memoryFile, now, rx, tx, hooks, thrown, lastWrite,
                         sent, pos, yielded, result, draining, events >>

\* socket.on('set-simulation-mode', {id, mode})
SetSimulationMode(id, mode) ==
    IF id \notin DOMAIN devices
    THEN UNCHANGED vars
    ELSE /\ devices' = [devices EXCEPT ![id].simulationMode = mode]
         /\ devicesFile' = saveDevicesConfig(devices')
         /\ UNCHANGED << memory, deviceUnlockState, buffer, portOpen, simInterval,
                         memoryFile, now, rx, tx, hooks, thrown, lastWrite,
                         sent, pos, yielded, result, draining, events >>

\* the port closes without a stop-server (the adapter is pulled, the driver fails):
\* serialPort.isOpen turns false, nothing of the program has run yet
PortLost ==
    /\ portOpen
    /\ portOpen' = FALSE
    /\ UNCHANGED << devices, memory, deviceUnlockState, buffer, simInterval, memoryFile,
                    devicesFile, now, rx, tx, hooks, thrown, lastWrite, sent, pos,
                    yielded, result, draining, events >>

\* serialPort.on('close') after such a loss: the counters are reset and
\* stopSimulation() runs; the input buffer is left as it is
CloseEvent ==
    /\ ~portOpen /\ simInterval
    /\ simInterval' = FALSE
    /\ UNCHANGED << devices, memory, deviceUnlockState, buffer, portOpen, memoryFile,
                    devicesFile, now, rx, tx, hooks, thrown, lastWrite, sent, pos,
                    yielded, result, draining, events >>

\* getDevicesList(): simulationMode: device.simulationMode || 'random'
SimulationModeOf(device) ==
    IF device.simulationMode = "none" THEN "random" ELSE device.simulationMode

\* the roster as the clients are shown it
getDevicesList(devs) ==
    [id \in DOMAIN devs |->
        [type |-> devs[id].type, enabled |-> devs[id].enabled,
         simulationMode |-> SimulationModeOf(devs[id])]]

(***************************************************************************)
(* The 1 Hz simulation tick.  Physical values are kept in eighths (220 V   *)
(* is 1760): every value the modelled draws of Math.random() produce is a  *)
(* multiple of 1/8 and is exactly representable as a 32-bit float.         *)
(***************************************************************************)
RECURSIVE Pow2(_)
Pow2(n) == IF n = 0 THEN 1 ELSE 2 * Pow2(n - 1)

RECURSIVE Log2(_)
Log2(k) == IF k < 2 THEN 0 ELSE 1 + Log2(k \div 2)

\* floatToModbus(val): buf.writeFloatBE(val), then [MSW, LSW]; v8 = 8 * val > 0
floatToModbus(v8) ==
    LET m == Log2(v8)
        bits == (127 + m - 3) * Pow2(23) + (v8 - Pow2(m)) * Pow2(23 - m)
    IN  << bits \div 65536, bits % 65536 >>

\* updateFloat(addr, val)
updateFloat(mem, addr, v8) ==
    MemWrite(MemWrite(mem, addr, floatToModbus(v8)[1]), addr + 1, floatToModbus(v8)[2])

\* Math.random() as drawn for the current, in eighths; the draws for the voltage,
\* the phase factors and the frequency are followed at 0.5 (no jitter)
RandomDraws == {0, 4}

\* the register updates of one energy meter; r8 is the draw for the current
TickEnergyMeter(mem, r8) ==
    LET voltage == 1760
        current == 40 + r8 * 5
        currentB == (current * 95) \div 100
        currentC == (current * 105) \div 100
        powerA == (voltage * current) \div 8
        powerB == (voltage * currentB) \div 8
        powerC == (voltage * currentC) \div 8
        m1 == updateFloat(updateFloat(updateFloat(mem, \h0800, voltage),
                                      \h0802, voltage), \h0804, voltage)
        m2 == updateFloat(updateFloat(updateFloat(m1, \h080C, current),
                                      \h080E, currentB), \h0810, currentC)
        m3 == updateFloat(updateFloat(updateFloat(m2, \h0806, powerA),
                                      \h0808, powerB), \h080A, powerC)
        m4 == updateFloat(m3, \h060A, powerA + powerB + powerC)
    IN  updateFloat(m4, \h0834, 400)

\* mutant: the simulation mode of the device is not looked at
RECURSIVE TickAll_IgnoresMode(_, _, _, _)
TickAll_IgnoresMode(mems, devs, ids, r8) ==
    IF ids = {} THEN mems
    ELSE LET id == CHOOSE x \in ids : TRUE
             rest == ids \ {id}
         IN  IF devs[id].enabled /\ devs[id].type = "energymeter"
             THEN LET got == getMem(mems, devs, id)
                  IN  TickAll_IgnoresMode([got EXCEPT ![id] = TickEnergyMeter(@, r8)],
                                          devs, rest, r8)
             ELSE TickAll_IgnoresMode(mems, devs, rest, r8)

\* for (const [id, device] of devices) { ... } of the interval callback
RECURSIVE TickAll(_, _, _, _)
TickAll(mems, devs, ids, r8) ==
    IF ids = {} THEN mems
    ELSE LET id == CHOOSE x \in ids : TRUE
             rest == ids \ {id}
         IN  IF devs[id].enabled /\ devs[id].simulationMode # "manual"
                /\ devs[id].type = "energymeter"
             THEN LET got == getMem(mems, devs, id)
                  IN  TickAll([got EXCEPT ![id] = TickEnergyMeter(@, r8)], devs, rest, r8)
             ELSE TickAll(mems, devs, rest, r8)

\* the regs-update-batch events of one run of the callback: for each unit the words
\* that updateFloat found changed (no event when it found none)
RECURSIVE TickEvents(_, _, _, _)
TickEvents(old, new, devs, ids) ==
    IF ids = {} THEN << >>
    ELSE LET id == CHOOSE x \in ids : TRUE
             before == getMem(old, devs, id)[id]
             changed == IF id \in DOMAIN new
                        THEN { a \in DOMAIN new[id] \cup DOMAIN before :
                                  MemRead(new[id], a) # MemRead(before, a) }
                        ELSE {}
         IN  (IF changed = {} THEN << >>
              ELSE << << "regs-update-batch", id,
                         [a \in changed |-> MemRead(new[id], a)] >> >>)
             \o TickEvents(old, new, devs, ids \ {id})

\* the setInterval callback of startSimulation
Tick(r8) ==
    /\ simInterval
    /\ IF ~portOpen
       THEN UNCHANGED vars
       ELSE /\ memory' = TickAll(memory, devices, DOMAIN devices, r8)
            /\ events' = TickEvents(memory, TickAll(memory, devices, DOMAIN devices, r8),
                                    devices, DOMAIN devices)
            /\ UNCHANGED << devices, deviceUnlockState, buffer, portOpen, simInterval,
                            memoryFile, devicesFile, now, rx, tx, hooks, thrown,
                            lastWrite, sent, pos, yielded, result, draining >>

\* the process ends and is started again: the module-level state is rebuilt and
\* loadDevicesConfig(), loadMemoryConfig() run on the two files
Restart ==
    /\ devices' = loadDevicesConfig(devicesFile)
    /\ memory' = loadMemoryConfig(memoryFile)
    /\ deviceUnlockState' = EmptyMap
    /\ buffer' = << >>
    /\ portOpen' = FALSE
    /\ simInterval' = FALSE
    /\ rx' = << >>
    /\ tx' = << >>
    /\ hooks' = << >>
    /\ thrown' = FALSE
    /\ draining' = FALSE
    /\ events' = << >>
    /\ UNCHANGED << memoryFile, devicesFile, now, lastWrite, sent, pos, yielded, result >>

\* the master takes the responses off the line (or gives up waiting for one):
\* the exchange is over
Collect ==
    /\ rx # << >> \/ tx # << >> \/ hooks # << >> \/ thrown
    /\ rx' = << >>
    /\ tx' = << >>
    /\ hooks' = << >>
    /\ thrown' = FALSE
    /\ events' = << >>
    /\ UNCHANGED << devices, memory, deviceUnlockState, buffer, portOpen, simInterval,
                    memoryFile, devicesFile, now, lastWrite, sent, pos, yielded, result, draining >>

\* the bytes of the items, in the order they go over the wire
RECURSIVE Flatten(_)
Flatten(items) ==
    IF items = << >> THEN << >> ELSE Head(items) \o Flatten(Tail(items))

Wire == Flatten(sent)

\* the master queues one more item for transmission
Transmit(item) ==
    /\ Len(sent) < MaxItems
    /\ sent' = Append(sent, item)
    /\ UNCHANGED << devices, memory, deviceUnlockState, buffer, portOpen, simInterval,
                    memoryFile, devicesFile, now, rx, tx, hooks, thrown, lastWrite, pos, yielded, result, draining, events >>

\* serialPort.on('data'): the next n bytes of the wire arrive as one chunk
Deliver(n) ==
    /\ portOpen
    /\ pos + n <= Len(Wire)
    /\ LET r == OnData(SubSeq(Wire, pos + 1, pos + n))
       IN  /\ Apply(r)
           /\ draining' = (draining \/ r.tx # << >>)
           /\ yielded' = yielded \o r.rx
    /\ pos' = pos + n
    /\ UNCHANGED << devices, portOpen, simInterval, memoryFile, devicesFile, now, lastWrite, sent, result >>

\* the callbacks of serialPort.write and of the serialPort.drain it starts have run
DrainDone ==
    /\ draining
    /\ draining' = FALSE
    /\ UNCHANGED << devices, memory, deviceUnlockState, buffer, portOpen, simInterval,
                    memoryFile, devicesFile, now, rx, tx, hooks, thrown, lastWrite, sent,
                    pos, yielded, result, events >>

\* the master is half duplex: one request, then its response or a timeout
Idle == rx = << >> /\ tx = << >> /\ hooks = << >> /\ ~thrown

NextLock ==
    \/ StartServer
    \/ \E f \in LockRequests : Idle /\ MasterRequest(f)
    \/ Collect
    \/ \E d \in TimeSteps : AdvanceTime(d)
    \/ \E w \in LockOperatorWrites : SetRegister(w[1], w[2], w[3])

SpecLock == Init /\ [][NextLock]_vars

NextWrite ==
    \/ StartServer
    \/ \E f \in WriteRequests : Idle /\ MasterRequest(f)
    \/ Collect

SpecWrite == Init /\ [][NextWrite]_vars

NextMeter ==
    \/ StartServer
    \/ SetDeviceType(Meter111, "energymeter")
    \/ \E f \in MeterRequests : Idle /\ MasterRequest(f)
    \/ Collect
    \/ \E w \in MeterOperatorWrites : Idle /\ SetRegister(w[1], w[2], w[3])

SpecMeter == Init /\ [][NextMeter]_vars

NextRead ==
    \/ StartServer
    \/ StopServer
    \/ SetDeviceType(Meter111, "energymeter")
    \/ \E f \in ReadRequests : Idle /\ Len(buffer) < MaxBacklog /\ MasterRequest(f)
    \/ Collect
    \/ \E r8 \in RandomDraws : Idle /\ Tick(r8)

SpecRead == Init /\ [][NextRead]_vars

NextControl ==
    \/ StartServer
    \/ SetDeviceType(Flow110, "inverter")
    \/ \E f \in ControlRequests : Idle /\ MasterRequest(f)
    \/ Collect

SpecControl == Init /\ [][NextControl]_vars

NextRegistry ==
    \/ StartServer
    \/ \E e \in BOOLEAN : ToggleInverter(Inv1, e)
    \/ AddDevice(Spare9, "inverter")
    \/ RemoveDevice(Spare9)
    \/ \E f \in RegistryRequests : Idle /\ MasterRequest(f)
    \/ Collect

SpecRegistry == Init /\ [][NextRegistry]_vars

NextPersist ==
    \/ StartServer
    \/ AddDevice(Spare9, "flowmeter")
    \/ RemoveDevice(Spare9)
    \/ \E f \in PersistRequests : Idle /\ MasterRequest(f)
    \/ Collect
    \/ \E id \in {Inv1, Spare9} : Idle /\ GetRegister(id, \h0B15)
    \/ \E id \in {Inv1, Spare9} : Idle /\ SetRegister(id, \h0B15, 50)
    \/ Idle /\ Restart

SpecPersist == Init /\ [][NextPersist]_vars

NextDevices ==
    \/ \E id \in AddableIds, type \in AddableTypes : AddDevice(id, type)
    \/ \E id \in AddableIds : RemoveDevice(id)
    \/ SetRegister(Spare9, \h0B15, 51)
    \/ Restart

SpecDevices == Init /\ [][NextDevices]_vars

NextRoster ==
    \/ AddDevice(Spare9, "flowmeter")
    \/ RemoveDevice(Spare9)
    \/ \E type \in AddableTypes : SetDeviceType(Inv1, type)
    \/ \E id \in RosterIds, e \in BOOLEAN : ToggleInverter(id, e)
    \/ \E id \in RosterIds, mode \in SimulationModes : SetSimulationMode(id, mode)

SpecRoster == Init /\ [][NextRoster]_vars

NextReload ==
    \/ \E type \in AddableTypes : SetDeviceType(Inv1, type)
    \/ \E e \in BOOLEAN : ToggleInverter(Inv1, e)
    \/ \E w \in ReloadWrites : SetRegister(w[1], w[2], w[3])
    \/ Restart

SpecReload == Init /\ [][NextReload]_vars

NextTick ==
    \/ StartServer
    \/ PortLost
    \/ CloseEvent
    \/ Connect
    \/ SetDeviceType(Meter111, "energymeter")
    \/ \E e \in BOOLEAN : ToggleInverter(Meter111, e)
    \/ \E mode \in SimulationModes : SetSimulationMode(Meter111, mode)
    \/ \E r8 \in RandomDraws : Tick(r8)

SpecTick == Init /\ [][NextTick]_vars

NextClose ==
    \/ StartServer
    \/ StopServer
    \/ PortLost
    \/ CloseEvent
    \/ \E chunk \in CloseChunks : Idle /\ Len(buffer) < MaxBacklog /\ Receive(chunk)
    \/ Collect
    \/ \E e \in BOOLEAN : ToggleInverter(Inv1, e)

SpecClose == Init /\ [][NextClose]_vars

NextPair ==
    \/ StartServer
    \/ \E f \in PairRequests : Idle /\ MasterRequest(f)
    \/ Collect
    \/ \E w \in PairOperatorWrites : Idle /\ SetRegister(w[1], w[2], w[3])
    \/ ToggleInverter(Inv1, FALSE)

SpecPair == Init /\ [][NextPair]_vars

NextPrecedence ==
    \/ StartServer
    \/ \E f \in PrecedenceRequests : Idle /\ MasterRequest(f)
    \/ Collect
    \/ \E w \in PrecedenceOperatorWrites : Idle /\ SetRegister(w[1], w[2], w[3])

SpecPrecedence == Init /\ [][NextPrecedence]_vars

NextFlood ==
    \/ StartServer
    \/ \E chunk \in FloodChunks : Idle /\ Len(buffer) < MaxBacklog /\ Receive(chunk)
    \/ Collect
    \/ \E e \in BOOLEAN : ToggleInverter(Inv1, e)

SpecFlood == Init /\ [][NextFlood]_vars

NextDrain ==
    \/ StartServer
    \/ \E item \in DrainItems : Transmit(item)
    \/ \E n \in 1..(Len(Wire) - pos) : Deliver(n)
    \/ DrainDone

SpecDrain == Init /\ [][NextDrain]_vars

NextRecreate ==
    \/ StartServer
    \/ \E f \in RecreateRequests : Idle /\ MasterRequest(f)
    \/ Collect
    \/ AddDevice(Spare9, "inverter")
    \/ RemoveDevice(Spare9)
    \/ \E type \in AddableTypes : SetDeviceType(Inv1, type)

SpecRecreate == Init /\ [][NextRecreate]_vars

NextEvents ==
    \/ StartServer
    \/ \E item \in EventItems : Transmit(item)
    \/ \E n \in 1..(Len(Wire) - pos) : Deliver(n)

SpecEvents == Init /\ [][NextEvents]_vars

NextStream ==
    \/ StartServer
    \/ \E item \in StreamItems : Transmit(item)
    \/ \E n \in 1..(Len(Wire) - pos) : Deliver(n)

SpecStream == Init /\ [][NextStream]_vars

(***************************************************************************)
(* Observations used by the properties.                                    *)
(***************************************************************************)
\* the value a read of register a of unit id returns
Reg(id, a) == MemRead(getMem(memory, devices, id)[id], a)

\* every register of unit id, as a read would see them
Bank(id) == getMem(memory, devices, id)[id]

Unlocked(id) == id \in DOMAIN deviceUnlockState /\ deviceUnlockState[id].unlocked

LastActivity(id) ==
    IF id \in DOMAIN deviceUnlockState THEN deviceUnlockState[id].lastActivity ELSE 0

LastWriteAt(id) == IF id \in DOMAIN lastWrite THEN lastWrite[id].at ELSE 0
LastAcceptedAt(id) == IF id \in DOMAIN lastWrite THEN lastWrite[id].acceptedAt ELSE 0

\* resp is the exception response [id][fc | 0x80][code][crc][crc]
IsExceptionWith(resp, id, fc, code) ==
    Len(resp) = 5 /\ resp[1] = id /\ resp[2] = fc + 128 /\ resp[3] = code

\* the register writes a write request asks for, in order: << addr, val >>
SubWrites(f) ==
    IF f[2] = 6 THEN << << ReadUInt16BE(f, 2), ReadUInt16BE(f, 4) >> >>
    ELSE [i \in 1..ReadUInt16BE(f, 4) |->
            << ReadUInt16BE(f, 2) + i - 1, ReadUInt16BE(f, 5 + 2 * i) >>]

IsReadOnlyAddr(a) ==
    (a >= \h3000 /\ a <= \h30FF) \/ (a >= \h3100 /\ a <= \h31FF) \/ a \in {\h2100, \h2101}

\* a request to an enabled, registered unit over the open port
Listening(id) == portOpen /\ id \in DOMAIN devices /\ devices[id].enabled

\* C4 (as claimed): while a non-zero password is stored and the device is locked,
\* a write single register to 0x0000 carrying another value changes nothing: the
\* device is still locked and the stored password is what it was.
C4_WrongPasswordChangesNothing ==
    [][ \A v \in {1234, 4321} :
          ( /\ Idle /\ Listening(Inv1)
            /\ rx' = << WriteSingleFrame(Inv1, 0, v) >>
            /\ Reg(Inv1, 0) # 0 /\ Reg(Inv1, 0) # v
            /\ ~Unlocked(Inv1) )
          => ( /\ ~Unlocked(Inv1)'
               /\ Reg(Inv1, 0)' = Reg(Inv1, 0) ) ]_vars

\* C5 (as claimed): while the stored password is 0, a write single register
\* to 0x0000 stores the new password and leaves the unlock flag as it was.
C5_FirstPasswordDoesNotUnlock ==
    [][ \A v \in {1234, 4321} :
          ( /\ Idle /\ Listening(Inv1)
            /\ rx' = << WriteSingleFrame(Inv1, 0, v) >>
            /\ Reg(Inv1, 0) = 0 )
          => ( /\ Reg(Inv1, 0)' = v
               /\ Unlocked(Inv1)' = Unlocked(Inv1) ) ]_vars

\* C6: with 0x0000 = 1234 and 0x0002 = 1 a locked inverter answers the write
\* 0x0B15 = 50 with exception 0x04 and keeps the register; the write 0x0000 = 1234
\* unlocks it; while unlocked and within 5 minutes of the last activity the write
\* 0x0B15 = 50 is echoed and stored; once more than 5 minutes have passed since the
\* master's last write request the write is answered with 0x04 again.
C6_PasswordUnlockSequence ==
    [][ /\ ( /\ Idle /\ Listening(Inv1)
             /\ rx' = << WriteSingleFrame(Inv1, \h0B15, 50) >>
             /\ Reg(Inv1, 0) = 1234 /\ Reg(Inv1, 2) = 1 /\ ~Unlocked(Inv1) )
           => ( /\ Len(tx') = 1 /\ IsExceptionWith(tx'[1], Inv1, 6, 4)
                /\ Reg(Inv1, \h0B15)' = Reg(Inv1, \h0B15) )
        /\ ( /\ Idle /\ Listening(Inv1)
             /\ rx' = << WriteSingleFrame(Inv1, 0, 1234) >>
             /\ Reg(Inv1, 0) = 1234 )
           => ( /\ Unlocked(Inv1)' /\ LastActivity(Inv1)' = now
                /\ tx' = << WriteSingleFrame(Inv1, 0, 1234) >> )
        /\ ( /\ Idle /\ Listening(Inv1)
             /\ rx' = << WriteSingleFrame(Inv1, \h0B15, 50) >>
             /\ Reg(Inv1, 2) = 1
             /\ Unlocked(Inv1) /\ now - LastActivity(Inv1) <= UNLOCK_TIMEOUT_MS )
           => ( /\ tx' = << WriteSingleFrame(Inv1, \h0B15, 50) >>
                /\ Reg(Inv1, \h0B15)' = 50 )
        /\ ( /\ Idle /\ Listening(Inv1)
             /\ rx' = << WriteSingleFrame(Inv1, \h0B15, 50) >>
             /\ Reg(Inv1, 2) = 1
             /\ now - LastWriteAt(Inv1) > UNLOCK_TIMEOUT_MS )
           => ( /\ Len(tx') = 1 /\ IsExceptionWith(tx'[1], Inv1, 6, 4)
                /\ ~Unlocked(Inv1)'
                /\ Reg(Inv1, \h0B15)' = Reg(Inv1, \h0B15) ) ]_vars

\* C6 witness: the write 0x0B15 = 50, accepted earlier while unlocked, has just been
\* answered with 0x04 more than 5 minutes after the last accepted write.
C6_Witness ==
    /\ rx = << WriteSingleFrame(Inv1, \h0B15, 50) >>
    /\ Len(tx) = 1 /\ IsExceptionWith(tx[1], Inv1, 6, 4)
    /\ Reg(Inv1, 0) = 1234 /\ Reg(Inv1, 2) = 1 /\ Reg(Inv1, \h0B15) = 50
    /\ ~Unlocked(Inv1) /\ LastActivity(Inv1) > 0
    /\ LastAcceptedAt(Inv1) > 0
    /\ Inv1 \in DOMAIN memoryFile
    /\ MemRead(memoryFile[Inv1], 0) = 1234 /\ MemRead(memoryFile[Inv1], 2) = 1
    /\ MemRead(memoryFile[Inv1], \h0B15) = 45
    /\ now - LastAcceptedAt(Inv1) > UNLOCK_TIMEOUT_MS

\* the write request f has a register write to address 0x0000
WritesPassword(f) == \E k \in DOMAIN SubWrites(f) : SubWrites(f)[k][1] = 0

\* C7 (as claimed): once more than 5 minutes have passed since the last accepted
\* write of an unlocked device, the validation of the next write request (one that
\* does not itself write the password) leaves the device locked; and an fc 3 / 4
\* request never changes the unlock flag or the last-activity time.
C7_AutoLockAfterFiveMinutes ==
    [][ /\ ( /\ Idle /\ Listening(Inv1)
             /\ Len(rx') = 1 /\ rx'[1][1] = Inv1 /\ IsWriteFrame(rx'[1])
             /\ ~WritesPassword(rx'[1])
             /\ Unlocked(Inv1)
             /\ now - LastAcceptedAt(Inv1) > UNLOCK_TIMEOUT_MS )
           => ~Unlocked(Inv1)'
        /\ ( /\ Idle
             /\ Len(rx') = 1 /\ rx'[1][2] \in {3, 4} )
           => deviceUnlockState' = deviceUnlockState ]_vars

\* the first address other than 0x0000 and 0x0002 that write request f writes
\* (0 when it writes none)
RECURSIVE FirstGuarded(_, _)
FirstGuarded(ws, k) ==
    IF k > Len(ws) THEN 0
    ELSE IF ws[k][1] \notin {0, 2} THEN ws[k][1]
    ELSE FirstGuarded(ws, k + 1)

\* C8 (as claimed): while 0x0002 = 1 and the inverter is not unlocked, a write
\* request with a write to an address other than 0x0000 and 0x0002 is answered
\* with exception 0x04 and changes no register.
C8_LockedWritesGet04 ==
    [][ ( /\ Idle /\ Listening(Inv1)
          /\ Len(rx') = 1 /\ rx'[1][1] = Inv1 /\ IsWriteFrame(rx'[1])
          /\ Reg(Inv1, 2) = 1 /\ ~Unlocked(Inv1)
          /\ FirstGuarded(SubWrites(rx'[1]), 1) # 0 )
        => ( /\ Len(tx') = 1 /\ IsExceptionWith(tx'[1], Inv1, rx'[1][2], 4)
             /\ Bank(Inv1)' = Bank(Inv1) ) ]_vars

\* C8 (amended): while 0x0002 = 1 and the inverter is not unlocked, a write request
\* with a write to an address other than 0x0000 and 0x0002 is rejected and changes no
\* register; the exception code is 0x04 when the first such address of the request is
\* not read-only and 0x02 when it is read-only.
C8_LockedWritesRejected ==
    [][ ( /\ Idle /\ Listening(Inv1)
          /\ Len(rx') = 1 /\ rx'[1][1] = Inv1 /\ IsWriteFrame(rx'[1])
          /\ Reg(Inv1, 2) = 1 /\ ~Unlocked(Inv1)
          /\ FirstGuarded(SubWrites(rx'[1]), 1) # 0 )
        => ( /\ Len(tx') = 1
             /\ IsExceptionWith(tx'[1], Inv1, rx'[1][2],
                    IF IsReadOnlyAddr(FirstGuarded(SubWrites(rx'[1]), 1)) THEN 2 ELSE 4)
             /\ Bank(Inv1)' = Bank(Inv1)
             /\ ~Unlocked(Inv1)' ) ]_vars

\* C8 witness: a locked, protected inverter has just answered the write multiple
\* [0x0000 = 1234, 0x0001 = 0] with 0x04 and kept its (unset) password.
C8_Witness ==
    /\ rx = << WriteMultiFrame(Inv1, 0, << 1234, 0 >>) >>
    /\ Len(tx) = 1 /\ IsExceptionWith(tx[1], Inv1, 16, 4)
    /\ Reg(Inv1, 2) = 1 /\ Reg(Inv1, 0) = 0
    /\ ~Unlocked(Inv1)

\* the verdict of the validator on one register write in the present state
\* (0 when it is valid, else the exception code)
SubCode(id, w) ==
    validateWriteRequest([memory |-> memory, unlock |-> deviceUnlockState,
                          buffer |-> buffer, rx |-> << >>, tx |-> << >>,
                          hooks |-> << >>, thrown |-> FALSE,
                          emitted |-> << >>, immediates |-> << >>],
                         w[1], w[2], id, devices, now).code

\* the code of the first register write of ws, from index k on, that fails validation
\* (0 when none fails)
RECURSIVE FirstFailure(_, _, _)
FirstFailure(id, ws, k) ==
    IF k > Len(ws) THEN 0
    ELSE IF SubCode(id, ws[k]) # 0 THEN SubCode(id, ws[k])
    ELSE FirstFailure(id, ws, k + 1)

\* C3: a write multiple request in which the validation of some register write fails
\* changes no register, runs no hook, leaves the unlock state alone and is answered
\* with the exception frame that carries the code of the first failing register write.
C3_WriteMultipleIsAtomic ==
    [][ ( /\ Idle /\ Listening(Inv1)
          /\ Len(rx') = 1 /\ rx'[1][1] = Inv1 /\ rx'[1][2] = 16
          /\ FirstFailure(Inv1, SubWrites(rx'[1]), 1) # 0 )
        => ( /\ Bank(Inv1)' = Bank(Inv1)
             /\ hooks' = << >>
             /\ Unlocked(Inv1)' = Unlocked(Inv1)
             /\ Len(tx') = 1
             /\ IsExceptionWith(tx'[1], Inv1, 16,
                                FirstFailure(Inv1, SubWrites(rx'[1]), 1)) ) ]_vars

\* C3 witness: [0x2000 = 1, 0x2001 = 60001] has just been answered with 0x03 on an
\* inverter that is not locked out: the run command was not stored and the telemetry
\* registers still hold their defaults.
C3_Witness ==
    /\ rx = << WriteMultiFrame(Inv1, \h2000, << 1, 60001 >>) >>
    /\ Len(tx) = 1 /\ IsExceptionWith(tx[1], Inv1, 16, 3)
    /\ hooks = << >>
    /\ Reg(Inv1, \h2000) # 1 /\ Reg(Inv1, \h3000) = 5000 /\ Reg(Inv1, \h2001) = 60000

\* the first index of ws whose address is read-only (0 when there is none)
RECURSIVE FirstReadOnly(_, _)
FirstReadOnly(ws, k) ==
    IF k > Len(ws) THEN 0
    ELSE IF IsReadOnlyAddr(ws[k][1]) THEN k
    ELSE FirstReadOnly(ws, k + 1)

Signed16(w) == IF w >= 32768 THEN w - 65536 ELSE w

\* the allowed values of the range-checked control registers
Allowed(addr, val) ==
    CASE addr = \h2000 -> val \in 0..7
      [] addr = \h2001 -> val \in 0..60000
      [] addr = \h2002 -> val \in 0..1000
      [] addr = \h2003 -> val \in 0..1000
      [] addr = \h2004 -> Signed16(val) \in -3000..3000

\* C10 (as claimed): on an inverter that is not locked out, a write single register
\* to a control register is echoed and stored exactly when the value is in the
\* register's allowed set (0x2004 read as a signed word), and is otherwise answered
\* with exception 0x03 and not stored.
C10_ControlRegisterRanges ==
    [][ \A addr \in {\h2000, \h2001, \h2002, \h2003, \h2004} :
          ( /\ Idle /\ Listening(Inv1)
            /\ Len(rx') = 1 /\ rx'[1][1] = Inv1 /\ rx'[1][2] = 6
            /\ ReadUInt16BE(rx'[1], 2) = addr
            /\ ~(Reg(Inv1, 2) = 1 /\ ~Unlocked(Inv1)) )
          => IF Allowed(addr, ReadUInt16BE(rx'[1], 4))
             THEN tx' = rx' /\ Reg(Inv1, addr)' = ReadUInt16BE(rx'[1], 4)
             ELSE /\ Len(tx') = 1 /\ IsExceptionWith(tx'[1], Inv1, 6, 3)
                  /\ Reg(Inv1, addr)' = Reg(Inv1, addr) ]_vars

\* the frames among items[k..] whose last byte is among the first p bytes of the
\* wire, in order; off is the number of bytes of the items before k
RECURSIVE FramesArrived(_, _, _, _)
FramesArrived(items, k, off, p) ==
    IF k > Len(items) THEN << >>
    ELSE (IF items[k] \in StreamFrames /\ off + Len(items[k]) <= p
          THEN << items[k] >> ELSE << >>)
         \o FramesArrived(items, k + 1, off + Len(items[k]), p)

\* the number of leading bytes of the wire that belong to items which have arrived
\* completely within the first p bytes
RECURSIVE ArrivedBytes(_, _, _, _)
ArrivedBytes(items, k, off, p) ==
    IF k > Len(items) \/ off + Len(items[k]) > p THEN off
    ELSE ArrivedBytes(items, k + 1, off + Len(items[k]), p)

OnlyFrames == \A i \in 1..Len(sent) : sent[i] \in StreamFrames

\* C1 (as claimed): when the wire carries nothing but valid frames, then after every
\* chunk the frames handed to the dispatcher are exactly the frames that have
\* arrived completely, in order and once each, and the buffer holds exactly the
\* bytes of the frame that has arrived in part.
C1_FramesInOrderOnce ==
    OnlyFrames =>
        /\ yielded = FramesArrived(sent, 1, 0, pos)
        /\ buffer = SubSeq(Wire, ArrivedBytes(sent, 1, 0, pos) + 1, pos)

\* the dispatcher handles every frame on the wire without an exception
NoneThrows == \A i \in 1..Len(sent) : sent[i] # ReadTooMany

\* C2 (as claimed): when frames and noise runs are on the wire and every byte has
\* been received, the frames handed to the dispatcher are exactly the frames on the
\* wire.  Stated for wires whose frames the dispatcher handles without an exception.
C2_ResyncAfterNoise ==
    (pos > 0 /\ pos = Len(Wire) /\ NoneThrows) =>
        yielded = FramesArrived(sent, 1, 0, pos)

IsMeter(id) == id \in DOMAIN devices /\ devices[id].type \in {"flowmeter", "energymeter"}

\* C11 (as claimed): a write request (fc 6 or fc 16) to an enabled flow meter or
\* energy meter is never answered with an exception: it gets its normal response.
C11_MetersAcceptEveryWrite ==
    [][ ( /\ Idle /\ Len(rx') = 1 /\ IsWriteFrame(rx'[1])
          /\ Listening(rx'[1][1]) /\ IsMeter(rx'[1][1]) )
        => Answered(tx') ]_vars

\* a step leaves every register of unit id other than 0x2000 as it was
OnlyCommandRegisterChanges(id) ==
    \A a \in (DOMAIN Bank(id) \cup DOMAIN Bank(id)') \ {\h2000} :
        MemRead(Bank(id)', a) = MemRead(Bank(id), a)

\* the step is an accepted master write of 0x2000 (and of nothing else) on unit id
MasterWritesCommand(id) ==
    /\ Idle /\ Len(rx') = 1 /\ rx'[1][1] = id /\ rx'[1][2] = 6
    /\ ReadUInt16BE(rx'[1], 2) = \h2000
    /\ Answered(tx')

\* the step is an operator set-register of 0x2000 on unit id
OperatorWritesCommand(id) ==
    \E w \in MeterOperatorWrites :
        w[1] = id /\ w[2] = \h2000 /\ Idle /\ SetRegister(w[1], w[2], w[3])

\* C19 (as claimed): on a flow meter or energy meter a write to 0x2000, by the
\* master or by the operator, changes no register other than 0x2000.
C19_HookIsInverterOnly ==
    [][ \A id \in MeterIds :
          (IsMeter(id) /\ (MasterWritesCommand(id) \/ OperatorWritesCommand(id)))
          => OnlyCommandRegisterChanges(id) ]_vars

IsReadFrame(f) == f[2] = 3 \/ f[2] = 4

\* C12 (as claimed): a read request to a listening unit whose count is outside
\* 1..125, or whose window addr + count runs past the 16-bit address space, is
\* answered with exception 0x03 and leaves nothing in the input buffer.
C12_ReadCountChecked ==
    [][ ( /\ Idle /\ buffer = << >>
          /\ Len(rx') = 1 /\ IsReadFrame(rx'[1]) /\ Listening(rx'[1][1])
          /\ \/ ReadUInt16BE(rx'[1], 4) \notin 1..125
             \/ ReadUInt16BE(rx'[1], 2) + ReadUInt16BE(rx'[1], 4) > 65536 )
        => ( /\ tx' = << buildExceptionResponse(rx'[1][1], rx'[1][2], 3) >>
             /\ buffer' = << >> ) ]_vars

\* every frame handed to the dispatcher is a read request to a listening unit
RECURSIVE AllListeningReads(_, _)
AllListeningReads(frames, k) ==
    k > Len(frames)
    \/ ( /\ IsReadFrame(frames[k]) /\ Listening(frames[k][1])
         /\ AllListeningReads(frames, k + 1) )

\* C13 (as claimed): a data event produces one response for every read request to
\* a listening unit it dispatches, never more responses than frames, and no
\* response when no frame passes the CRC check.
C13_OneResponsePerRead ==
    [][ Idle => ( /\ Len(tx') <= Len(rx')
                  /\ AllListeningReads(rx', 1) => Len(tx') = Len(rx') ) ]_vars

\* C16: a write single register that the validator rejects is answered with the
\* 5-byte frame [id][0x86][code][crc lo][crc hi] and changes no register; one that
\* the validator accepts stores the value at the address and is answered with the
\* request itself.
C16_WriteSingleResponses ==
    [][ \A w \in WriteSingles :
          ( Idle /\ Listening(Inv1) /\ rx' = << WriteSingleFrame(Inv1, w[1], w[2]) >> )
          => IF SubCode(Inv1, w) # 0
             THEN /\ Len(tx') = 1 /\ Len(tx'[1]) = 5
                  /\ tx'[1][1] = Inv1 /\ tx'[1][2] = 134 /\ tx'[1][3] = SubCode(Inv1, w)
                  /\ CrcMatches(tx'[1])
                  /\ Bank(Inv1)' = Bank(Inv1)
             ELSE /\ tx' = rx'
                  /\ Reg(Inv1, w[1])' = w[2] ]_vars

\* C16 witness: the frequency setpoint 60000 was written and echoed earlier; the
\* request 0x2001 = 60001 has just been answered 01 86 03 and the register still
\* holds 60000.
C16_Witness ==
    /\ rx = << WriteSingleFrame(Inv1, \h2001, 60001) >>
    /\ tx = << << 1, 134, 3, 2, 97 >> >>
    /\ Reg(Inv1, \h2001) = 60000

\* the registers the master writes in the read scenario: << unit, address, value >>
Watched == { << Inv1, \h0B15, 50 >>, << Meter111, \h0800, 5 >> }
WatchedUnits == { w[1] : w \in Watched }
WatchedAddrs == { w[2] : w \in Watched }

\* register w holds the value an accepted write of the master stored (no default
\* and no tick value of the register equals it)
Written(w) == Reg(w[1], w[2]) = w[3]

\* the registers the tick of an energy meter writes
TickAddrs ==
    { \h0800, \h0801, \h0802, \h0803, \h0804, \h0805, \h0806, \h0807, \h0808, \h0809,
      \h080A, \h080B, \h080C, \h080D, \h080E, \h080F, \h0810, \h0811, \h060A, \h060B,
      \h0834, \h0835 }

\* the step dispatches a write request of the master that names address a of unit id
MasterWrote(id, a) ==
    /\ Idle
    /\ \E i \in 1..Len(rx') :
          /\ rx'[i][1] = id /\ IsWriteFrame(rx'[i])
          /\ \E k \in 1..Len(SubWrites(rx'[i])) : SubWrites(rx'[i])[k][1] = a

\* the step runs the control-command hook of unit id
HookRan(id) ==
    \E i \in 1..Len(hooks') : hooks'[i][1] = "control" /\ hooks'[i][2] = id

\* an accepted write single register stores its value
WriteStores ==
    \A id \in WatchedUnits, a \in WatchedAddrs :
        ( /\ Idle /\ buffer = << >> /\ Len(rx') = 1
          /\ rx'[1][1] = id /\ rx'[1][2] = 6 /\ ReadUInt16BE(rx'[1], 2) = a
          /\ Answered(tx') )
        => Reg(id, a)' = ReadUInt16BE(rx'[1], 4)

\* a read of one register returns the value the register holds
ReadReturnsValue ==
    \A id \in WatchedUnits, a \in WatchedAddrs :
        ( /\ Idle /\ buffer = << >> /\ Listening(id) /\ Len(rx') = 1
          /\ rx'[1][1] = id /\ IsReadFrame(rx'[1])
          /\ ReadUInt16BE(rx'[1], 2) = a /\ ReadUInt16BE(rx'[1], 4) = 1 )
        => /\ Len(tx') = 1 /\ Len(tx'[1]) = 7
           /\ tx'[1][3] = 2 /\ tx'[1][4] * 256 + tx'[1][5] = Reg(id, a)
           /\ Reg(id, a)' = Reg(id, a)

\* the step is a tick that overwrites address a of the energy meter id
TickOverwrote(id, a) ==
    /\ \E r8 \in RandomDraws : Tick(r8)
    /\ id \in DOMAIN devices /\ devices[id].type = "energymeter"
    /\ devices[id].enabled /\ devices[id].simulationMode # "manual"
    /\ a \in TickAddrs

\* the step is a set-device-type that re-creates the memory of unit id
TypeSet(id) == \E type \in DeviceTypes : SetDeviceType(id, type)

ClaimedRunValue(r, id) ==
    CASE r \in {\h3000, \h0300} -> id * 1000
      [] r \in {\h3002, \h0302} -> (100 + 10 * id) * 10
      [] r \in {\h3003, \h0303} -> id * 10
      [] r \in {\h3004, \h0304} -> id * 10
      [] r \in {\h3005, \h0305} -> id * 100
      [] r \in {\h3023, \h0323} -> id

TelemetryRegisters ==
    { \h3000, \h0300, \h3002, \h0302, \h3003, \h0303,
      \h3004, \h0304, \h3005, \h0305, \h3023, \h0323 }

\* C18 (as claimed): after an accepted write of v to 0x2000 of an inverter, the
\* frequency, voltage, current, power, speed and energy registers and their mirrors
\* read 0 when v is 0, 5 or 6, and id*1000, (100+10*id)*10, id*10, id*10, id*100
\* and id when v is 1, 2, 3 or 4.
C18_ControlCommandHook ==
    [][ \A id \in {Inv1, Flow110}, v \in 0..6 :
          ( /\ Idle /\ Listening(id) /\ devices[id].type = "inverter"
            /\ rx' = << WriteSingleFrame(id, \h2000, v) >> /\ tx' = rx' )
          => \A r \in TelemetryRegisters :
                Reg(id, r)' = IF v \in {0, 5, 6} THEN 0 ELSE ClaimedRunValue(r, id) ]_vars

\* C14: a request of any function code whose unit id is not in the registry is
\* answered with no byte at all.
C14_UnknownUnitSilent ==
    [][ \A f \in RegistryRequests :
          (Idle /\ f[1] \notin DOMAIN devices /\ MasterRequest(f)) => tx' = << >> ]_vars

\* a valid frame for a unit that is not registered went through the dispatcher
C14_Witness ==
    /\ portOpen /\ Len(rx) = 1 /\ rx[1][1] \notin DOMAIN devices /\ rx[1][2] = 16
    /\ tx = << >>

\* C15: a request to a registered but disabled device gets no response byte and
\* changes neither a register nor the unlock state; a read or write request to the
\* device while it is enabled (again) gets its response.
C15_DisabledIsSilent ==
    [][ \A f \in RegistryRequests :
          (Idle /\ f[1] \in DOMAIN devices /\ MasterRequest(f))
          => IF devices[f[1]].enabled
             THEN f[2] \in SupportedFCs => Len(tx') = 1 /\ tx'[1][1] = f[1]
             ELSE /\ tx' = << >>
                  /\ Bank(f[1])' = Bank(f[1])
                  /\ deviceUnlockState' = deviceUnlockState ]_vars

\* inverter 1 answered a write multiple while enabled, was switched off, and the
\* password write that would have unlocked it went through the dispatcher unanswered
C15_Witness ==
    /\ portOpen /\ Inv1 \in DOMAIN devices /\ ~devices[Inv1].enabled
    /\ rx = << WriteSingleFrame(Inv1, 0, 1234) >> /\ tx = << >>
    /\ Reg(Inv1, \h0B15) = 50 /\ Reg(Inv1, 0) = 0 /\ ~Unlocked(Inv1)

\* C20 (as claimed): a register memory exists for an id only if the id is in the
\* registry.  (The converse is met on demand: the array of a registered id is
\* allocated by its first use, so it is this direction a state can break.)
C20_MemoryOnlyForRegistered ==
    \A id \in DOMAIN memory : id \in DOMAIN devices

\* what a start of the process would load from the two files as they are now
ReloadedDevices == loadDevicesConfig(devicesFile)
ReloadedMemory == loadMemoryConfig(memoryFile)

\* the roster and every register of every device come back from the files as they are
RoundTrips ==
    /\ getDevicesList(ReloadedDevices) = getDevicesList(devices)
    /\ \A id \in DOMAIN devices :
          getMem(ReloadedMemory, ReloadedDevices, id)[id] = Bank(id)

\* C21 (as claimed): right after an operator register change, a restart that reloads
\* the two persisted files gives the same roster (ids, type, enabled, sim_mode) and,
\* for every device and address, the same register value.
C21_ReloadIsRoundTrip ==
    [][ (\E w \in ReloadWrites : SetRegister(w[1], w[2], w[3])) => RoundTrips' ]_vars

\* C22: add(id, type) on an id that is not in the registry creates the device with
\* enabled = true and sim_mode = random, and its memory holds exactly the defaults of
\* the type, whatever an earlier holder of the id left behind.
C22_AddCreatesFreshDevice ==
    [][ \A id \in AddableIds, type \in AddableTypes :
          (id \notin DOMAIN devices /\ AddDevice(id, type))
          => /\ id \in DOMAIN devices'
             /\ devices'[id] = [type |-> type, enabled |-> TRUE, simulationMode |-> "random"]
             /\ id \in DOMAIN memory' /\ memory'[id] = DefaultsOf(type)
             /\ result'.success ]_vars

\* unit 9 was added as a flow meter after registers had been set and persisted under
\* the same id: it holds the flow meter defaults and nothing else
C22_Witness ==
    /\ Spare9 \in DOMAIN devices /\ devices[Spare9].type = "flowmeter"
    /\ result.success
    /\ Spare9 \in DOMAIN memoryFile /\ MemRead(memoryFile[Spare9], \h0B15) = 51
    /\ Spare9 \in DOMAIN memory /\ memory[Spare9] = flowMeterDefaults

\* C23: add(id, type) with the id already present and remove(id) with the id absent
\* return an error and leave the roster, every memory and the persisted roster as
\* they were.
C23_FailedRegistryOpsAreNoOps ==
    [][ /\ \A id \in AddableIds, type \in AddableTypes :
             (id \in DOMAIN devices /\ AddDevice(id, type))
             => /\ ~result'.success
                /\ result'.error = "Device with this Slave ID already exists"
                /\ devices' = devices /\ memory' = memory /\ devicesFile' = devicesFile
        /\ \A id \in AddableIds :
             (id \notin DOMAIN devices /\ RemoveDevice(id))
             => /\ ~result'.success /\ result'.error = "Device not found"
                /\ devices' = devices /\ memory' = memory /\ devicesFile' = devicesFile
      ]_vars

\* a remove of an id that is not registered was refused, and no roster has been
\* persisted
C23_Witness ==
    /\ ~result.success /\ result.error = "Device not found"
    /\ AddableIds \cap DOMAIN devices = {}
    /\ ~devicesFile.exists

\* C25 (as claimed): every slave id in the registry is an integer in 1..247.
C25_IdsInRange ==
    \A id \in DOMAIN devices : id \in 1..247

\* C24: set_type(id, type) on a registered device leaves it with exactly the defaults
\* of the new type in its memory, with its enabled flag and sim_mode as they were,
\* and changes no other device.
C24_SetTypeRecreatesMemory ==
    [][ \A type \in AddableTypes :
          (Inv1 \in DOMAIN devices /\ SetDeviceType(Inv1, type))
          => /\ Inv1 \in DOMAIN memory' /\ memory'[Inv1] = DefaultsOf(type)
             /\ DOMAIN devices' = DOMAIN devices
             /\ devices'[Inv1].type = type
             /\ devices'[Inv1].enabled = devices[Inv1].enabled
             /\ SimulationModeOf(devices'[Inv1]) = SimulationModeOf(devices[Inv1])
             /\ \A other \in DOMAIN devices \ {Inv1} :
                   devices'[other] = devices[other] /\ Bank(other)' = Bank(other) ]_vars

\* unit 1 was switched off, had 0x0B15 set to 50 by the operator and was then made a
\* flow meter: it holds the flow meter defaults only and is still switched off
C24_Witness ==
    /\ Inv1 \in DOMAIN devices /\ devices[Inv1].type = "flowmeter"
    /\ ~devices[Inv1].enabled
    /\ Inv1 \in DOMAIN memoryFile /\ MemRead(memoryFile[Inv1], \h0B15) = 50
    /\ Inv1 \in DOMAIN memory /\ memory[Inv1] = flowMeterDefaults

\* a registry command that goes through
AddSucceeds ==
    \E id \in AddableIds, type \in AddableTypes :
        id \notin DOMAIN devices /\ AddDevice(id, type)
RemoveSucceeds ==
    \E id \in AddableIds : id \in DOMAIN devices /\ RemoveDevice(id)
SetTypeSucceeds ==
    \E id \in RosterIds, type \in AddableTypes :
        id \in DOMAIN devices /\ SetDeviceType(id, type)
SetEnabledSucceeds ==
    \E id \in RosterIds, e \in BOOLEAN : id \in DOMAIN devices /\ ToggleInverter(id, e)
SetSimModeSucceeds ==
    \E id \in RosterIds, mode \in SimulationModes :
        id \in DOMAIN devices /\ SetSimulationMode(id, mode)

\* devices.json holds the roster: same ids, each with the same type, enabled flag and
\* sim_mode (a device without a simulationMode counts as 'random', as it does when
\* the roster is listed or loaded)
PersistedRosterIsCurrent ==
    /\ devicesFile.exists
    /\ getDevicesList(devicesFile.devices) = getDevicesList(devices)

\* C26: after every successful add, remove, set_type, set_enabled and set_sim_mode
\* the persisted roster equals the roster in memory.
C26_RosterPersistedOnMutation ==
    [][ (AddSucceeds \/ RemoveSucceeds \/ SetTypeSucceeds \/ SetEnabledSucceeds
         \/ SetSimModeSucceeds) => PersistedRosterIsCurrent' ]_vars

\* unit 9 is registered as a flow meter, switched off and in manual mode, and
\* devices.json says so
C26_Witness ==
    /\ Spare9 \in DOMAIN devices /\ PersistedRosterIsCurrent
    /\ ~devicesFile.devices[Spare9].enabled
    /\ devicesFile.devices[Spare9].simulationMode = "manual"
    /\ devicesFile.devices[Inv1].type = "flowmeter"

\* the tick is to work on device id
Simulated(id) ==
    /\ portOpen
    /\ devices[id].enabled
    /\ SimulationModeOf(devices[id]) = "random"
    /\ devices[id].type = "energymeter"

\* C27: a tick changes registers of enabled energy meters in random mode only: every
\* register of every inverter, flow meter, disabled device and device in manual mode
\* is as it was, and with the port closed nothing changes at all.
C27_TickOnlyDrivesEnergyMeters ==
    [][ (\E r8 \in RandomDraws : Tick(r8))
        => /\ \A id \in DOMAIN devices : ~Simulated(id) => Bank(id)' = Bank(id)
           /\ ~portOpen => UNCHANGED vars ]_vars

\* energy meter 111 carries the voltage of a tick, has since been put in manual mode,
\* and the inverter and the flow meter next to it hold their defaults
C27_Witness ==
    /\ portOpen /\ simInterval
    /\ devices[Meter111].type = "energymeter"
    /\ devices[Meter111].simulationMode = "manual"
    /\ Reg(Meter111, \h0800) = \h435C
    /\ Inv1 \in DOMAIN memory /\ memory[Inv1] = inverterDefaults
    /\ Flow110 \in DOMAIN memory /\ memory[Flow110] = flowMeterDefaults

\* C28 (as claimed): once the port has closed, by stop-server or by a close event
\* nobody asked for, the input buffer is empty and the periodic timer is cancelled.
C28_CloseDiscardsAssembly ==
    [][ (StopServer \/ CloseEvent) => (buffer' = << >> /\ ~simInterval') ]_vars

\* the frames of fs that are addressed to unit id, in order
RECURSIVE ForUnit(_, _)
ForUnit(fs, id) ==
    IF fs = << >> THEN << >>
    ELSE (IF Head(fs)[1] = id THEN << Head(fs) >> ELSE << >>) \o ForUnit(Tail(fs), id)

\* ys follows the order of xs: every element of ys is an element of xs, and a later
\* element of ys is never an earlier element of xs (an element may come up again
\* before the next one does)
RECURSIVE FollowsOrder(_, _)
FollowsOrder(ys, xs) ==
    IF ys = << >> THEN TRUE
    ELSE IF xs = << >> THEN FALSE
    ELSE IF Head(ys) = Head(xs) THEN FollowsOrder(Tail(ys), xs)
    ELSE FollowsOrder(ys, Tail(xs))

\* resp is a response to req: same unit, same function code (with or without the
\* exception flag)
ResponseTo(resp, req) ==
    resp[1] = req[1] /\ (resp[2] = req[2] \/ resp[2] = req[2] + 128)

\* the responses are responses to requests of reqs, in the order of reqs, one each
RECURSIVE ResponsesInOrder(_, _)
ResponsesInOrder(resps, reqs) ==
    IF resps = << >> THEN TRUE
    ELSE IF reqs = << >> THEN FALSE
    ELSE IF ResponseTo(Head(resps), Head(reqs))
         THEN ResponsesInOrder(Tail(resps), Tail(reqs))
         ELSE ResponsesInOrder(resps, Tail(reqs))

StreamUnits == { f[1] : f \in StreamFrames }

\* C29: for the requests addressed to one slave, the frames are handed to the
\* dispatcher in the order in which they arrived, and the responses of a data event
\* are handed to the port in the order of the requests they answer.
C29_SameSlaveOrder ==
    \A id \in StreamUnits :
        /\ FollowsOrder(ForUnit(yielded, id), ForUnit(FramesArrived(sent, 1, 0, pos), id))
        /\ ResponsesInOrder(ForUnit(tx, id), ForUnit(rx, id))

\* one chunk carried two different requests for inverter 1; both were dispatched and
\* answered, in that order
C29_Witness ==
    /\ Len(rx) = 2 /\ rx[1] # rx[2] /\ rx[1][1] = Inv1 /\ rx[2][1] = Inv1
    /\ Len(tx) = 2 /\ ResponseTo(tx[1], rx[1]) /\ ResponseTo(tx[2], rx[2])
    /\ yielded = rx

\* a step leaves every register, the unlock state and the roster entry of every
\* slave other than a as they were
OthersUntouched(a) ==
    \A b \in DOMAIN devices \ {a} :
        /\ Bank(b)' = Bank(b)
        /\ Unlocked(b)' = Unlocked(b)
        /\ LastActivity(b)' = LastActivity(b)
        /\ b \in DOMAIN devices' /\ devices'[b] = devices[b]

\* C30: neither a request addressed to slave A, with whatever hook it triggers, nor
\* an operator set_register on A changes a register, the unlock state or the enabled
\* flag of another slave.
C30_SlavesAreIndependent ==
    [][ /\ \A f \in PairRequests : (Idle /\ MasterRequest(f)) => OthersUntouched(f[1])
        /\ \A w \in PairOperatorWrites :
              SetRegister(w[1], w[2], w[3]) => OthersUntouched(w[1]) ]_vars

\* inverter 2 has been unlocked by its password and has just taken a run command;
\* inverter 1, read before, still holds its defaults and is locked
C30_Witness ==
    /\ rx = << WriteSingleFrame(Inv2, \h2000, 1) >> /\ tx = rx
    /\ Unlocked(Inv2) /\ Reg(Inv2, \h3000) = 2000
    /\ Inv1 \in DOMAIN memory /\ memory[Inv1] = inverterDefaults /\ ~Unlocked(Inv1)

\* C31: the checks of a single write to an inverter come in a fixed order: a write to
\* 0x0000 is accepted whatever the state; else a read-only address gets 0x02, locked
\* or not; else a locked-out address gets 0x04, whatever the value; and only an
\* address that passed both gets 0x03 for an out-of-range control value.
C31_ValidationPrecedence ==
    [][ \A w \in PrecedenceSingles :
          ( Idle /\ Listening(Inv1) /\ rx' = << WriteSingleFrame(Inv1, w[1], w[2]) >> )
          => /\ (w[1] = 0) => (tx' = rx' /\ Reg(Inv1, 0)' = w[2])
             /\ (w[1] # 0 /\ IsReadOnlyAddr(w[1]))
                    => (Len(tx') = 1 /\ IsExceptionWith(tx'[1], Inv1, 6, 2))
             /\ ( /\ w[1] \notin {0, 2} /\ ~IsReadOnlyAddr(w[1])
                  /\ Reg(Inv1, 2) = 1 /\ ~Unlocked(Inv1) )
                    => (Len(tx') = 1 /\ IsExceptionWith(tx'[1], Inv1, 6, 4))
             /\ ( /\ w[1] \in ControlAddrs /\ ~Allowed(w[1], w[2])
                  /\ ~(Reg(Inv1, 2) = 1 /\ ~Unlocked(Inv1)) )
                    => (Len(tx') = 1 /\ IsExceptionWith(tx'[1], Inv1, 6, 3)) ]_vars

\* C31 witness: a protected, locked inverter has just answered a write to the
\* read-only register 0x3000 with 0x02.
C31_Witness ==
    /\ rx = << WriteSingleFrame(Inv1, \h3000, 1) >>
    /\ Len(tx) = 1 /\ IsExceptionWith(tx[1], Inv1, 6, 2)
    /\ Reg(Inv1, 2) = 1 /\ ~Unlocked(Inv1)

\* the buffer starts with a complete frame whose CRC matches: the first frame the
\* extraction loop hands to the dispatcher
StartsWithFrame(buf) ==
    /\ Len(buf) >= 4 /\ buf[2] \in SupportedFCs
    /\ FrameLen(buf, 0) # 0 /\ FrameLen(buf, 0) <= Len(buf)
    /\ CrcMatches(Subarray(buf, 0, FrameLen(buf, 0)))

\* C32: a data event never leaves more than 4096 bytes in the buffer, and never
\* drops a complete valid frame: when the bytes received so far start with such a
\* frame, the data event hands it to the dispatcher.
C32_FlushSparesFrames ==
    [][ \A chunk \in FloodChunks :
          Receive(chunk)
          => /\ Len(buffer') <= MAX_BUFFER_SIZE
             /\ StartsWithFrame(buffer \o chunk)
                    => ( /\ rx' # << >>
                         /\ rx'[1] = Subarray(buffer \o chunk, 0,
                                              FrameLen(buffer \o chunk, 0)) ) ]_vars

\* frame k of the frames a data event dispatched came after a response of the same
\* data event had been handed to the port (no callback runs before the event ends)
DispatchedAfterWrite(frames, responses, k) ==
    \E j \in 1..(k - 1) : \E i \in 1..Len(responses) : ResponseTo(responses[i], frames[j])

\* C33: no frame is dispatched between the write of a response and the completion
\* of its drain: a data event dispatches a frame only when no earlier response is
\* still being written or drained, be it of an earlier data event or of its own.
C33_DispatchWaitsForDrain ==
    [][ (pos' # pos /\ rx' # << >>)
        => /\ ~draining
           /\ \A k \in 1..Len(rx') : ~DispatchedAfterWrite(rx', tx', k) ]_vars

WritesStoredPassword(f) ==
    \E k \in 1..Len(SubWrites(f)) :
        SubWrites(f)[k] = << 0, Reg(f[1], 0) >>

\* the master of this scenario does not know the password: it never sends the
\* value that is stored at the time
NextGuess ==
    \/ StartServer
    \/ \E f \in GuessRequests : Idle /\ ~WritesStoredPassword(f) /\ MasterRequest(f)
    \/ Collect
    \/ \E w \in GuessOperatorWrites : Idle /\ SetRegister(w[1], w[2], w[3])

SpecGuess == Init /\ [][NextGuess]_vars

\* C35: while 0x0002 = 1 and a non-zero password is stored, the requests of a master
\* that never sends the stored password change no register of the inverter other
\* than 0x0000 and 0x0002.
C35_ProtectedRegistersHold ==
    [][ ( /\ Idle /\ Listening(Inv1) /\ rx' # << >>
          /\ Reg(Inv1, 2) = 1 /\ Reg(Inv1, 0) # 0 )
        => \A a \in (DOMAIN Bank(Inv1) \cup DOMAIN Bank(Inv1)') \ {0, 2} :
              Reg(Inv1, a)' = Reg(Inv1, a) ]_vars

\* C36: a write request that is answered with an exception leaves the last-activity
\* time of the unit as it was.
C36_RejectedWriteKeepsTimer ==
    [][ ( /\ Idle /\ Listening(Inv1)
          /\ Len(rx') = 1 /\ rx'[1][1] = Inv1 /\ IsWriteFrame(rx'[1])
          /\ Len(tx') = 1 /\ IsException(tx'[1]) )
        => LastActivity(Inv1)' = LastActivity(Inv1) ]_vars

\* C37: a device that has just been created is locked: after add(id, inverter), and
\* after set_type(id, inverter), the unlock flag of id is false, whatever it was for
\* the device that had the id before.
C37_CreatedDeviceIsLocked ==
    [][ /\ (AddDevice(Spare9, "inverter") /\ result'.success) => ~Unlocked(Spare9)'
        /\ SetDeviceType(Inv1, "inverter") => ~Unlocked(Inv1)' ]_vars

\* the register bank of unit id as an observer holds it after the events evs[k..],
\* applied in order to the bank it held before
RECURSIVE Observed(_, _, _, _)
Observed(bank, evs, k, id) ==
    IF k > Len(evs) THEN bank
    ELSE IF evs[k][2] # id THEN Observed(bank, evs, k + 1, id)
    ELSE IF evs[k][1] = "reg-update"
         THEN Observed(MemWrite(bank, evs[k][3], evs[k][4]), evs, k + 1, id)
         ELSE Observed([a \in { x \in DOMAIN bank \cup DOMAIN evs[k][3] :
                                   (IF x \in DOMAIN evs[k][3] THEN evs[k][3][x]
                                    ELSE bank[x]) # 0 } |->
                           IF a \in DOMAIN evs[k][3] THEN evs[k][3][a] ELSE bank[a]],
                       evs, k + 1, id)

\* C38: the register events come in the order of the changes they report: an
\* observer that holds the banks as they were before a data event and applies the
\* events of the data event in the order emitted holds the banks as they are after it.
C38_EventsFollowMutations ==
    [][ pos' # pos
        => \A id \in DOMAIN devices : Observed(Bank(id), events', 1, id) = Bank(id)' ]_vars

\* C39: right after set_type(1, t), a restart that reloads the two persisted files
\* gives unit 1 the type t and exactly the default registers of t.
C39_TypeChangeSurvivesRestart ==
    [][ \A type \in AddableTypes :
          (Inv1 \in DOMAIN devices /\ SetDeviceType(Inv1, type))
          => /\ Inv1 \in DOMAIN ReloadedDevices' /\ ReloadedDevices'[Inv1].type = type
             /\ getMem(ReloadedMemory', ReloadedDevices', Inv1)[Inv1] = DefaultsOf(type)
      ]_vars

====
